---- MODULE Spec2Model ----
(***************************************************************************)
(* Entitlement & usage ledger of the fix-note backend                      *)
(* (backend/src/services/notes_service.py) and the bot handlers that call  *)
(* it (backend/src/bot.py).  The store is the Supabase/PostgREST client:   *)
(* every .execute() is one statement against the store, and statements of  *)
(* different calls interleave at the store.                                *)
(***************************************************************************)
EXTENDS Integers, Sequences, FiniteSets, TLC

\* ------------------------------------------------------------------ bounds
NProcs == 2
MaxCalls == 2
MaxTicks == 2
DaysPerMonth == 30
ProSummaries == 1
ProVoiceMinutes == 1
MaxTextLen == 4

\* --------------------------------------------------------------- constants
NULL == -1
MonthlyDays == 30
YearlyDays == 365
SecondsPerMinute == 60
\* similarity scores are counted in tenths: 0.2 is 2, 1.0 is 10
\* the character budget of get_embedding (30000 in the code), scaled to texts
\* of a few characters
max_chars == 3
AskLimit == 5
AskMinSimilarity == 2

Procs == 1..NProcs
Users == {"u1", "u2"}
Plans == {"free", "trial", "pro", "ultra"}
PaidPlans == {"pro", "ultra"}
BillingPeriods == {"monthly", "yearly"}
UsageTypes == {"summaries", "voice_seconds", "chat_messages"}
UsedFields == {"summaries_used", "voice_seconds_used", "chat_messages_used"}
Amounts == {0, 1}
Durations == {NULL, 1}
TickSteps == {1, DaysPerMonth, YearlyDays}
\* embedding vectors the provider returns
Vectors == {1, 2, 3}
\* note ids a request can name: a note of u1, a note of u2, no note
NoteIds == {1, 2, 9}
ListLimits == {1, 50}
SearchLimits == {1, 2}
\* min_similarity of a thresholded search, in tenths; NULL: plain search
MinSimilarities == {NULL, 5, 10}

VARIABLES now, ticks, calls, users, subscription_limits, usage_stats, nextId,
          notes, proc, acked,
          forwarded_messages_buffer, forwarded_messages_tasks, flushes,
          received

vars == <<now, ticks, calls, users, subscription_limits, usage_stats, nextId,
          notes, proc, acked,
          forwarded_messages_buffer, forwarded_messages_tasks, flushes,
          received>>

\* the bot's in-memory state for forwarded messages: the buffer and the
\* pending task of each user, the flush tasks created so far (a task is named
\* by its position), and the messages handle_text has been given
forwardVars == <<forwarded_messages_buffer, forwarded_messages_tasks, flushes,
                 received>>

\* defaultdict(list) and {} at import: nothing buffered, no task
NoForwards ==
    /\ forwarded_messages_buffer = [u \in Users |-> <<>>]
    /\ forwarded_messages_tasks = [u \in Users |-> NULL]
    /\ flushes = <<>>
    /\ received = <<>>

\* ------------------------------------------------------------------- time
MonthStartOfEpoch(t) == 0

\* datetime.utcnow().replace(day=1, hour=0, ...): first day of the month of t
MonthStart(t) == t - (t % DaysPerMonth)

\* ------------------------------------------------------------ usage_stats
\* f"{usage_type}_used" unless the name already ends in "_used"
FieldOf(usage_type) ==
    IF usage_type \in UsedFields THEN usage_type
    ELSE IF usage_type = "summaries" THEN "summaries_used"
    ELSE IF usage_type = "voice_seconds" THEN "voice_seconds_used"
    ELSE "chat_messages_used"

\* the row the insert of increment_usage creates; unnamed counters take the
\* column default
NewUsageRow(id, u, m, field, amount) ==
    [[id |-> id, user_id |-> u, month_start |-> m, summaries_used |-> 0,
      voice_seconds_used |-> 0, chat_messages_used |-> 0]
        EXCEPT ![field] = amount]

\* select * from usage_stats where user_id = u and month_start = m
ExistingRows(u, m) ==
    {r \in usage_stats : r.user_id = u /\ r.month_start = m}

RECURSIVE SumField(_, _)
SumField(rows, field) ==
    IF rows = {} THEN 0
    ELSE LET r == CHOOSE x \in rows : TRUE
         IN r[field] + SumField(rows \ {r}, field)

\* what is stored for (u, m) in one counter, over all rows of that key
StoredTotal(u, m, field) == SumField(ExistingRows(u, m), field)

\* sum of the amounts of the increment_usage calls that returned True, per
\* (user, month, counter): what the callers were told is recorded
Acked(k) == IF k \in DOMAIN acked THEN acked[k] ELSE 0

Acknowledge(k, a) ==
    [x \in DOMAIN acked \cup {k} |-> IF x = k THEN Acked(k) + a ELSE acked[x]]

\* ------------------------------------------------------------------ notes
\* the row the insert of create_note creates: content as given, no embedding,
\* not shared
NoteRow(id, u, source, summary, embedding) ==
    [id |-> id, user_id |-> u, content |-> 1, summary |-> summary,
     source |-> source, embedding |-> embedding, share_token |-> NULL,
     is_public |-> FALSE]

\* ---------------------------------------------------------------- process
NoRow ==
    [subscription_plan |-> "free", trial_ends_at |-> NULL,
     subscription_started_at |-> NULL, subscription_expires_at |-> NULL]

NoInfo ==
    [plan |-> "none",
     limits |-> [summaries_per_month |-> NULL, voice_minutes_per_month |-> NULL,
                 ai_chat_enabled |-> FALSE, ai_chat_fast |-> FALSE,
                 sync_enabled |-> FALSE, auto_sync |-> FALSE],
     usage |-> [summaries_used |-> 0, voice_seconds_used |-> 0,
                chat_messages_used |-> 0]]

NoCheck == [allowed |-> FALSE, plan |-> "none", reason |-> "none"]

\* invoice payload "user_id:plan:billing_period:unique_id" as its parts
Payload(u, plan, billing_period, unique_id) ==
    [parts |-> 4, user |-> u, plan |-> plan, billing_period |-> billing_period,
     unique_id |-> unique_id]

NoPayload == [parts |-> 0, user |-> "u1", plan |-> "free",
              billing_period |-> "monthly", unique_id |-> 0]

\* the locals of one in-flight call (handler or service method)
IdleProc ==
    [pc |-> "idle", op |-> "none", user |-> "u1", utype |-> "summaries",
     amount |-> 0, month |-> 0, cur |-> 0, curval |-> 0, ret |-> "done",
     result |-> "none", row |-> NoRow, info |-> NoInfo,
     duration |-> NULL, check |-> NoCheck, summary |-> FALSE, note |-> 0,
     failed |-> FALSE, outcome |-> "none",
     qe |-> NULL, results |-> <<>>, limit |-> 0, minsim |-> NULL,
     payload |-> NoPayload, at |-> NULL, rows |-> {},
     embeds |-> 0, queries |-> 0, text |-> <<>>, sent |-> <<>>,
     share_token |-> NULL, content |-> 0]

\* return from increment_usage to the caller's next statement
ReturnFrom(p, res) ==
    [proc EXCEPT ![p].pc = proc[p].ret, ![p].result = res, ![p].ret = "done",
                 ![p].utype = "summaries", ![p].amount = 0,
                 ![p].month = 0, ![p].cur = 0, ![p].curval = 0]

\* ---------------------------------------------------------- increment_usage
\* a caller enters increment_usage(user, usage_type, amount); month_start is
\* taken from the clock before the first statement
EnterIncrement(p, u, t, a, ret) ==
    [proc EXCEPT ![p].pc = "inc_select", ![p].user = u, ![p].utype = t,
                 ![p].amount = a, ![p].month = MonthStart(now),
                 ![p].cur = 0, ![p].curval = 0, ![p].ret = ret,
                 ![p].result = "none"]

\* cmd_ask / search_notes / handle_text end with increment_usage(chat_messages, 1);
\* here any metered caller
StartIncrement(p, u, t, a) ==
    /\ proc[p].pc \in {"idle", "done"}
    /\ calls < MaxCalls
    /\ calls' = calls + 1
    /\ proc' = [proc EXCEPT ![p] = [IdleProc EXCEPT
                    !.pc = "inc_select", !.op = "increment_usage", !.user = u,
                    !.utype = t, !.amount = a, !.month = MonthStart(now)]]
    /\ UNCHANGED <<now, ticks, users, subscription_limits, usage_stats, nextId,
                   notes, acked>>
    /\ UNCHANGED forwardVars

\* existing = select ... eq(user_id).eq(month_start)
IncSelect(p) ==
    /\ proc[p].pc = "inc_select"
    /\ LET rows == ExistingRows(proc[p].user, proc[p].month)
       IN IF rows = {}
          THEN proc' = [proc EXCEPT ![p].pc = "inc_write", ![p].cur = 0]
          ELSE \E r \in rows :
                 proc' = [proc EXCEPT ![p].pc = "inc_write", ![p].cur = r.id,
                                      ![p].curval = r[FieldOf(proc[p].utype)]]
    /\ UNCHANGED <<now, ticks, calls, users, subscription_limits, usage_stats,
                   nextId, notes, acked>>
    /\ UNCHANGED forwardVars

\* update {field: current + amount} where id = current.id, or insert
IncWrite(p) ==
    /\ proc[p].pc = "inc_write"
    /\ LET field == FieldOf(proc[p].utype)
       IN IF proc[p].cur # 0
          THEN /\ usage_stats' =
                    {IF r.id = proc[p].cur
                     THEN [r EXCEPT ![field] = proc[p].curval + proc[p].amount]
                     ELSE r : r \in usage_stats}
               /\ nextId' = nextId
          ELSE /\ usage_stats' = usage_stats \cup
                    {NewUsageRow(nextId, proc[p].user, proc[p].month, field,
                                 proc[p].amount)}
               /\ nextId' = nextId + 1
    /\ acked' = Acknowledge(<<proc[p].user, proc[p].month, FieldOf(proc[p].utype)>>,
                             proc[p].amount)
    /\ proc' = ReturnFrom(p, "true")
    /\ UNCHANGED <<now, ticks, calls, users, subscription_limits, notes>>
    /\ UNCHANGED forwardVars

IncFailRaises(p) ==
    /\ proc[p].pc \in {"inc_select", "inc_write"}
    /\ proc' = [proc EXCEPT ![p].pc = "done", ![p].ret = "done",
                            ![p].result = "raised", ![p].failed = TRUE,
                            ![p].outcome = "error", ![p].utype = "summaries",
                            ![p].amount = 0, ![p].month = 0, ![p].cur = 0,
                            ![p].curval = 0]
    /\ UNCHANGED <<now, ticks, calls, users, subscription_limits, usage_stats,
                   nextId, notes, acked>>
    /\ UNCHANGED forwardVars

\* except Exception: return False  (a statement against usage_stats failed)
IncFail(p) ==
    /\ proc[p].pc \in {"inc_select", "inc_write"}
    /\ proc' = [ReturnFrom(p, "false") EXCEPT ![p].failed = TRUE]
    /\ UNCHANGED <<now, ticks, calls, users, subscription_limits, usage_stats,
                   nextId, notes, acked>>
    /\ UNCHANGED forwardVars

\* ------------------------------------------------------------------ clock
Tick(d) ==
    /\ ticks < MaxTicks
    /\ ticks' = ticks + 1
    /\ now' = now + d
    /\ UNCHANGED <<calls, users, subscription_limits, usage_stats, nextId,
                   notes, proc, acked>>
    /\ UNCHANGED forwardVars

\* ------------------------------------------------------ subscription state
UserRow(plan, trialEnds, started, expires) ==
    [subscription_plan |-> plan, trial_ends_at |-> trialEnds,
     subscription_started_at |-> started, subscription_expires_at |-> expires]

\* SubscriptionLimits(): the model's field defaults
DefaultLimits ==
    [summaries_per_month |-> NULL, voice_minutes_per_month |-> NULL,
     ai_chat_enabled |-> FALSE, ai_chat_fast |-> FALSE,
     sync_enabled |-> FALSE, auto_sync |-> FALSE]

\* UsageStats(): the model's field defaults
DefaultUsage ==
    [summaries_used |-> 0, voice_seconds_used |-> 0, chat_messages_used |-> 0]

\* the subscription_limits reference rows
LimitsTable ==
    [pl \in Plans |->
       IF pl = "free"
       THEN [summaries_per_month |-> 0, voice_minutes_per_month |-> 0,
             ai_chat_enabled |-> FALSE, ai_chat_fast |-> FALSE,
             sync_enabled |-> FALSE, auto_sync |-> FALSE]
       ELSE IF pl = "pro"
       THEN [summaries_per_month |-> ProSummaries,
             voice_minutes_per_month |-> ProVoiceMinutes,
             ai_chat_enabled |-> TRUE, ai_chat_fast |-> FALSE,
             sync_enabled |-> TRUE, auto_sync |-> FALSE]
       ELSE [summaries_per_month |-> NULL, voice_minutes_per_month |-> NULL,
             ai_chat_enabled |-> TRUE, ai_chat_fast |-> TRUE,
             sync_enabled |-> TRUE, auto_sync |-> TRUE]]

\* the table with the row of one plan absent
WithoutRow(pl) == [x \in Plans \ {pl} |-> LimitsTable[x]]

\* ---------------------------------------------------- get_subscription_info
TrialExpiredNullIsPast(row, t) ==
    /\ row.subscription_plan = "trial"
    /\ t > row.trial_ends_at

\* "Check if trial expired": the branch that writes subscription_plan = free
TrialExpired(row, t) ==
    /\ row.subscription_plan = "trial"
    /\ row.trial_ends_at # NULL
    /\ t > row.trial_ends_at

PaidExpiredAtExpiry(row, t) ==
    /\ row.subscription_plan \in PaidPlans
    /\ row.subscription_expires_at # NULL
    /\ t >= row.subscription_expires_at

\* "Check if paid subscription expired"
PaidExpired(row, t) ==
    /\ row.subscription_plan \in PaidPlans
    /\ row.subscription_expires_at # NULL
    /\ t > row.subscription_expires_at

ResolvePlanStored(row, t) == row.subscription_plan

\* the plan get_subscription_info returns for a fetched user row at time t
ResolvePlan(row, t) ==
    IF TrialExpired(row, t) \/ PaidExpired(row, t) THEN "free"
    ELSE row.subscription_plan

WriteThroughSkipped(row, u, t) == users

\* the update the read issues on the stored row
WriteThrough(row, u, t) ==
    IF TrialExpired(row, t) \/ PaidExpired(row, t)
    THEN [users EXCEPT ![u].subscription_plan = "free"]
    ELSE users

\* "Get plan limits"
LimitsFor(plan) ==
    IF plan \in DOMAIN subscription_limits
    THEN subscription_limits[plan]
    ELSE DefaultLimits

CurrentUsageRowsAnyMonth(u, t) ==
    {r \in usage_stats : r.user_id = u}

\* select * from usage_stats where user_id = u and month_start >= month start
CurrentUsageRows(u, t) ==
    {r \in usage_stats : r.user_id = u /\ r.month_start >= MonthStart(t)}

UsageOfWrongColumn(r) ==
    [summaries_used |-> r.summaries_used,
     voice_seconds_used |-> r.summaries_used,
     chat_messages_used |-> r.chat_messages_used]

\* UsageStats(summaries_used=..., voice_seconds_used=..., chat_messages_used=...)
UsageOf(r) ==
    [summaries_used |-> r.summaries_used,
     voice_seconds_used |-> r.voice_seconds_used,
     chat_messages_used |-> r.chat_messages_used]

\* "Get current month usage": data[0] of the rows, or UsageStats()
UsageResults(u, t) ==
    IF CurrentUsageRows(u, t) = {} THEN {DefaultUsage}
    ELSE {UsageOf(r) : r \in CurrentUsageRows(u, t)}

\* the SubscriptionInfo values a read that fetched row can return at time t
InfoResults(row, u, t) ==
    {[plan |-> ResolvePlan(row, t), limits |-> LimitsFor(ResolvePlan(row, t)),
      usage |-> usage] : usage \in UsageResults(u, t)}

\* a request for GET /api/subscription arrives
StartRead(p, u) ==
    /\ proc[p].pc \in {"idle", "done"}
    /\ calls < MaxCalls
    /\ calls' = calls + 1
    /\ proc' = [proc EXCEPT ![p] = [IdleProc EXCEPT !.pc = "gsi_fetch",
                   !.op = "get_subscription_info", !.user = u]]
    /\ UNCHANGED <<now, ticks, users, subscription_limits, usage_stats, nextId,
                   notes, acked>>
    /\ UNCHANGED forwardVars

\* user_result = select * from users where id = user_id
GsiFetch(p) ==
    /\ proc[p].pc = "gsi_fetch"
    /\ proc' = [proc EXCEPT ![p].pc = "gsi_finish",
                            ![p].row = users[proc[p].user]]
    /\ UNCHANGED <<now, ticks, calls, users, subscription_limits, usage_stats,
                   nextId, notes, acked>>
    /\ UNCHANGED forwardVars

\* expiry checks with their update, limits lookup, usage lookup, return
GsiFinish(p) ==
    /\ proc[p].pc = "gsi_finish"
    /\ users' = WriteThrough(proc[p].row, proc[p].user, now)
    /\ \E info \in InfoResults(proc[p].row, proc[p].user, now) :
         proc' = [proc EXCEPT ![p].pc = "done", ![p].info = info]
    /\ UNCHANGED <<now, ticks, calls, subscription_limits, usage_stats, nextId,
                   notes, acked>>
    /\ UNCHANGED forwardVars

\* ---------------------------------------------------- activate_subscription
ExpiresAtAlwaysMonthly(t, billing_period) == t + MonthlyDays

ExpiresAt(t, billing_period) ==
    IF billing_period = "monthly" THEN t + MonthlyDays ELSE t + YearlyDays

\* process_successful_payment -> activate_subscription(user, plan, period)
ActivateSubscription(p, u, plan, billing_period) ==
    /\ proc[p].pc \in {"idle", "done"}
    /\ calls < MaxCalls
    /\ calls' = calls + 1
    /\ users' = [users EXCEPT ![u].subscription_plan = plan,
                              ![u].subscription_started_at = now,
                              ![u].subscription_expires_at =
                                  ExpiresAt(now, billing_period)]
    /\ proc' = [proc EXCEPT ![p] = [IdleProc EXCEPT !.pc = "done",
                   !.op = "activate_subscription", !.user = u,
                   !.result = "true"]]
    /\ UNCHANGED <<now, ticks, subscription_limits, usage_stats, nextId,
                   notes, acked>>
    /\ UNCHANGED forwardVars

\* ------------------------------------------------ process_successful_payment
\* payloads of the invoices create_subscription_invoice has issued, and one
\* payload with fewer than three parts
Payments ==
    {Payload("u1", pl, bp, 1) : pl \in PaidPlans, bp \in BillingPeriods} \cup
    {[NoPayload EXCEPT !.parts = 2]}

\* a successful_payment message with this invoice payload is delivered
StartPayment(p, pay) ==
    /\ proc[p].pc \in {"idle", "done"}
    /\ calls < MaxCalls
    /\ calls' = calls + 1
    /\ proc' = [proc EXCEPT ![p] = [IdleProc EXCEPT !.pc = "ps_activate",
                   !.op = "process_successful_payment", !.user = pay.user,
                   !.payload = pay]]
    /\ UNCHANGED <<now, ticks, users, subscription_limits, usage_stats, nextId,
                   notes, acked>>
    /\ UNCHANGED forwardVars

\* split the payload; success = activate_subscription(user, plan, period);
\* answer the user.  The update can also raise (except branch).
PsActivate(p) ==
    /\ proc[p].pc = "ps_activate"
    /\ LET pay == proc[p].payload
       IN IF pay.parts < 3
          THEN /\ proc' = [proc EXCEPT ![p].pc = "done",
                                       ![p].outcome = "invalid_payload"]
               /\ users' = users
          ELSE \/ /\ users' =
                       [users EXCEPT
                          ![pay.user].subscription_plan = pay.plan,
                          ![pay.user].subscription_started_at = now,
                          ![pay.user].subscription_expires_at =
                              ExpiresAt(now, pay.billing_period)]
                  /\ proc' = [proc EXCEPT ![p].pc = "done", ![p].at = now,
                                 ![p].result = "true",
                                 ![p].outcome = "activated"]
               \/ /\ users' = users
                  /\ proc' = [proc EXCEPT ![p].pc = "done",
                                 ![p].failed = TRUE, ![p].outcome = "error"]
    /\ UNCHANGED <<now, ticks, calls, subscription_limits, usage_stats, nextId,
                   notes, acked>>
    /\ UNCHANGED forwardVars

\* ------------------------------------------------------------ can_use_feature
Decision(allowed, plan, reason) ==
    [allowed |-> allowed, plan |-> plan, reason |-> reason]

\* the decision table over a SubscriptionInfo
CanUseFeature(info, feature) ==
    IF feature = "chat"
    THEN IF info.limits.ai_chat_enabled THEN Decision(TRUE, info.plan, "none")
         ELSE IF info.plan = "free" THEN Decision(FALSE, info.plan, "free_plan")
         ELSE Decision(FALSE, info.plan, "not_available")
    ELSE IF feature = "voice"
    THEN IF info.plan = "free" THEN Decision(FALSE, info.plan, "free_plan")
         ELSE IF /\ info.limits.voice_minutes_per_month # NULL
                 /\ info.usage.voice_seconds_used >=
                      info.limits.voice_minutes_per_month * SecondsPerMinute
         THEN Decision(FALSE, info.plan, "limit_reached")
         ELSE Decision(TRUE, info.plan, "none")
    ELSE IF /\ info.limits.summaries_per_month # NULL
            /\ info.usage.summaries_used >= info.limits.summaries_per_month
         THEN Decision(FALSE, info.plan, "limit_reached")
         ELSE Decision(TRUE, info.plan, "none")

\* -------------------------------------------------------------- handle_voice
\* the handler returns; its locals go away, the outcome is what the user saw
Finish(p, outcome) ==
    [proc EXCEPT ![p] = [IdleProc EXCEPT !.pc = "done", !.op = proc[p].op,
       !.user = proc[p].user, !.check = proc[p].check, !.note = proc[p].note,
       !.failed = proc[p].failed, !.outcome = outcome]]

\* a voice message of duration d arrives from user u
StartVoice(p, u, d) ==
    /\ proc[p].pc \in {"idle", "done"}
    /\ calls < MaxCalls
    /\ calls' = calls + 1
    /\ proc' = [proc EXCEPT ![p] = [IdleProc EXCEPT !.pc = "hv_check_voice",
                   !.op = "handle_voice", !.user = u, !.duration = d]]
    /\ UNCHANGED <<now, ticks, users, subscription_limits, usage_stats, nextId,
                   notes, acked>>
    /\ UNCHANGED forwardVars

HandledVoiceDenialsFreeOnly == {"free_plan"}

\* the reasons handle_voice answers with a refusal: if reason ==
\* "free_plan" ... elif reason == "limit_reached"
HandledVoiceDenials == {"free_plan", "limit_reached"}

\* can_use, plan, reason = can_use_feature(user.id, "voice"); the two
\* handled denials return
HvCheckVoice(p) ==
    /\ proc[p].pc = "hv_check_voice"
    /\ users' = WriteThrough(users[proc[p].user], proc[p].user, now)
    /\ \E info \in InfoResults(users[proc[p].user], proc[p].user, now) :
         LET c == CanUseFeature(info, "voice")
         IN IF ~c.allowed /\ c.reason \in HandledVoiceDenials
            THEN proc' = [Finish(p, "denied") EXCEPT ![p].check = c]
            ELSE proc' = [proc EXCEPT ![p].pc = "hv_transcribe", ![p].check = c]
    /\ UNCHANGED <<now, ticks, calls, subscription_limits, usage_stats, nextId,
                   notes, acked>>
    /\ UNCHANGED forwardVars

\* download + transcribe_bytes, then increment_usage(voice_seconds,
\* duration or 0) is entered
HvTranscribe(p) ==
    /\ proc[p].pc = "hv_transcribe"
    /\ \/ proc' = EnterIncrement(p, proc[p].user, "voice_seconds",
                                  IF proc[p].duration = NULL THEN 0
                                  ELSE proc[p].duration,
                                  "hv_check_summary")
       \/ proc' = Finish(p, "no_transcription")
       \/ proc' = Finish(p, "error")
    /\ UNCHANGED <<now, ticks, calls, users, subscription_limits, usage_stats,
                   nextId, notes, acked>>
    /\ UNCHANGED forwardVars

\* can_summarize, _, _ = can_use_feature(user.id, "summary")
HvCheckSummary(p) ==
    /\ proc[p].pc = "hv_check_summary"
    /\ users' = WriteThrough(users[proc[p].user], proc[p].user, now)
    /\ \E info \in InfoResults(users[proc[p].user], proc[p].user, now) :
         LET c == CanUseFeature(info, "summary")
         IN proc' = [proc EXCEPT ![p].check = c,
                       ![p].pc = IF c.allowed THEN "hv_summarize"
                                 ELSE "hv_create_note"]
    /\ UNCHANGED <<now, ticks, calls, subscription_limits, usage_stats, nextId,
                   notes, acked>>
    /\ UNCHANGED forwardVars

\* summary = summarize(transcription); if summary: increment_usage(summaries, 1)
HvSummarize(p) ==
    /\ proc[p].pc = "hv_summarize"
    /\ \/ proc' = [EnterIncrement(p, proc[p].user, "summaries", 1,
                                   "hv_create_note") EXCEPT ![p].summary = TRUE]
       \/ proc' = [proc EXCEPT ![p].pc = "hv_create_note"]
    /\ UNCHANGED <<now, ticks, calls, users, subscription_limits, usage_stats,
                   nextId, notes, acked>>
    /\ UNCHANGED forwardVars

\* note = create_note(...); an insert that raises ends in the except branch
HvCreateNote(p) ==
    /\ proc[p].pc = "hv_create_note"
    /\ \/ /\ notes' = notes \cup
                 {NoteRow(nextId, proc[p].user, "voice", proc[p].summary, NULL)}
          /\ nextId' = nextId + 1
          /\ proc' = [proc EXCEPT ![p].pc = "hv_index", ![p].note = nextId]
       \/ /\ proc' = Finish(p, "create_failed")
          /\ UNCHANGED <<notes, nextId>>
    /\ UNCHANGED <<now, ticks, calls, users, subscription_limits, usage_stats,
                   acked>>
    /\ UNCHANGED forwardVars

\* index_note(note.id, transcription): the embedding is stored, or False
HvIndex(p) ==
    /\ proc[p].pc = "hv_index"
    /\ \/ notes' = {IF n.id = proc[p].note THEN [n EXCEPT !.embedding = n.id]
                     ELSE n : n \in notes}
       \/ notes' = notes
    /\ proc' = Finish(p, "saved")
    /\ UNCHANGED <<now, ticks, calls, users, subscription_limits, usage_stats,
                   nextId, acked>>
    /\ UNCHANGED forwardVars

\* ------------------------------------------------------------ get_embedding
Chars == {"a", "b"}

\* texts of at most MaxTextLen characters
Texts == UNION {[1..n -> Chars] : n \in 0..MaxTextLen}

TruncateTail(text) ==
    IF Len(text) > max_chars
    THEN SubSeq(text, Len(text) - max_chars + 1, Len(text))
    ELSE text

\* if len(text) > max_chars: text = text[:max_chars]
Truncate(text) ==
    IF Len(text) > max_chars THEN SubSeq(text, 1, max_chars) ELSE text

\* get_embedding(text) is called
StartEmbed(p, text) ==
    /\ proc[p].pc \in {"idle", "done"}
    /\ calls < MaxCalls
    /\ calls' = calls + 1
    /\ proc' = [proc EXCEPT ![p] = [IdleProc EXCEPT !.pc = "ge_create",
                   !.op = "get_embedding", !.text = text]]
    /\ UNCHANGED <<now, ticks, users, subscription_limits, usage_stats, nextId,
                   notes, acked>>
    /\ UNCHANGED forwardVars

\* response = embeddings.create(input = text); the vector is returned, or
\* the provider error is logged and raised again
GeCreate(p) ==
    /\ proc[p].pc = "ge_create"
    /\ \/ \E v \in Vectors :
            proc' = [proc EXCEPT ![p].pc = "done", ![p].qe = v,
                                 ![p].sent = Truncate(proc[p].text),
                                 ![p].result = "vector"]
       \/ proc' = [proc EXCEPT ![p].pc = "done", ![p].failed = TRUE,
                               ![p].sent = Truncate(proc[p].text),
                               ![p].result = "raised"]
    /\ UNCHANGED <<now, ticks, calls, users, subscription_limits, usage_stats,
                   nextId, notes, acked>>
    /\ UNCHANGED forwardVars

\* ---------------------------------------------------------------- retrieval
\* similarity of a query vector and a note vector, in tenths
Similarity(a, b) == IF a = b THEN 10 ELSE IF a - b \in {1, -1} THEN 5 ELSE 0

\* SearchResult(**item)
ResultOf(n, qv) == [id |-> n.id, similarity |-> Similarity(qv, n.embedding)]

\* r comes before s: higher similarity first, the more recent note on a tie
Before(r, s) ==
    \/ r.similarity > s.similarity
    \/ r.similarity = s.similarity /\ r.id > s.id

RECURSIVE Ranked(_)
Ranked(S) ==
    IF S = {} THEN <<>>
    ELSE LET best == CHOOSE r \in S : \A s \in S \ {r} : Before(r, s)
         IN <<best>> \o Ranked(S \ {best})

Take(seq, k) == SubSeq(seq, 1, IF k < Len(seq) THEN k ELSE Len(seq))

\* rpc search_notes(query_embedding, match_count, match_user_id)
SearchNotesRpc(qv, match_count, match_user_id) ==
    Take(Ranked({ResultOf(n, qv) :
                   n \in {m \in notes : /\ m.user_id = match_user_id
                                        /\ m.embedding # NULL}}),
         match_count)

RpcArgsFixedUser(qv, user_id, limit) ==
    [query_embedding |-> qv, match_count |-> limit, match_user_id |-> "u1"]

\* the arguments search hands to the rpc
RpcArgs(qv, user_id, limit) ==
    [query_embedding |-> qv, match_count |-> limit, match_user_id |-> user_id]

RECURSIVE FilterSimilarStrict(_, _)
FilterSimilarStrict(results, min_similarity) ==
    IF results = <<>> THEN <<>>
    ELSE (IF Head(results).similarity > min_similarity THEN <<Head(results)>>
          ELSE <<>>) \o FilterSimilarStrict(Tail(results), min_similarity)

RECURSIVE FilterSimilar(_, _)
\* [r for r in results if r.similarity >= min_similarity]
FilterSimilar(results, min_similarity) ==
    IF results = <<>> THEN <<>>
    ELSE (IF Head(results).similarity >= min_similarity THEN <<Head(results)>>
          ELSE <<>>) \o FilterSimilar(Tail(results), min_similarity)

\* a caller enters search (minsim = NULL) or search_with_threshold
EnterSearch(p, limit, minsim, ret) ==
    [proc EXCEPT ![p].pc = "se_embed", ![p].limit = limit, ![p].minsim = minsim,
                 ![p].ret = ret, ![p].qe = NULL, ![p].results = <<>>,
                 ![p].embeds = 0, ![p].queries = 0]

\* search returns results; search_with_threshold filters them and returns
ReturnSearch(p, results) ==
    [proc EXCEPT ![p].pc = proc[p].ret, ![p].ret = "done", ![p].qe = NULL,
                 ![p].results = IF proc[p].minsim = NULL THEN results
                                ELSE FilterSimilar(results, proc[p].minsim)]

\* search / search_with_threshold is called for user u
StartSearch(p, u, limit, minsim) ==
    /\ proc[p].pc \in {"idle", "done"}
    /\ calls < MaxCalls
    /\ calls' = calls + 1
    /\ proc' = [proc EXCEPT ![p] = [IdleProc EXCEPT !.pc = "se_embed",
                   !.op = IF minsim = NULL THEN "search"
                          ELSE "search_with_threshold",
                   !.user = u, !.limit = limit, !.minsim = minsim]]
    /\ UNCHANGED <<now, ticks, users, subscription_limits, usage_stats, nextId,
                   notes, acked>>
    /\ UNCHANGED forwardVars

SeEmbedRaises(p) ==
    /\ proc[p].pc = "se_embed"
    /\ \/ \E v \in Vectors :
            proc' = [proc EXCEPT ![p].pc = "se_rpc", ![p].qe = v,
                                 ![p].embeds = @ + 1]
       \/ proc' = [proc EXCEPT ![p].pc = "done", ![p].ret = "done",
                               ![p].result = "raised", ![p].failed = TRUE,
                               ![p].embeds = @ + 1]
    /\ UNCHANGED <<now, ticks, calls, users, subscription_limits, usage_stats,
                   nextId, notes, acked>>
    /\ UNCHANGED forwardVars

\* query_embedding = await self.get_embedding(query); a provider error is
\* re-raised by get_embedding and caught by search: return []
SeEmbed(p) ==
    /\ proc[p].pc = "se_embed"
    /\ \/ \E v \in Vectors :
            proc' = [proc EXCEPT ![p].pc = "se_rpc", ![p].qe = v,
                                 ![p].embeds = @ + 1]
       \/ proc' = [ReturnSearch(p, <<>>) EXCEPT ![p].failed = TRUE,
                                                ![p].embeds = @ + 1]
    /\ UNCHANGED <<now, ticks, calls, users, subscription_limits, usage_stats,
                   nextId, notes, acked>>
    /\ UNCHANGED forwardVars

\* result = rpc(...).execute(); the rows as SearchResult, [] on no data or on
\* an exception
SeRpc(p) ==
    /\ proc[p].pc = "se_rpc"
    /\ \/ LET a == RpcArgs(proc[p].qe, proc[p].user, proc[p].limit)
          IN proc' = [ReturnSearch(p, SearchNotesRpc(a.query_embedding,
                                        a.match_count, a.match_user_id))
                        EXCEPT ![p].queries = @ + 1]
       \/ proc' = [ReturnSearch(p, <<>>) EXCEPT ![p].failed = TRUE,
                                                ![p].queries = @ + 1]
    /\ UNCHANGED <<now, ticks, calls, users, subscription_limits, usage_stats,
                   nextId, notes, acked>>
    /\ UNCHANGED forwardVars

\* --------------------------------------------------------------- index_note
IndexedNotesUnfiltered(note_id, v) == {[n EXCEPT !.embedding = v] : n \in notes}

\* notes after update({"embedding": embedding}).eq("id", note_id)
IndexedNotes(note_id, v) ==
    {IF n.id = note_id THEN [n EXCEPT !.embedding = v] ELSE n : n \in notes}

\* index_note returns to its caller
ReturnIndex(p, res) ==
    [proc EXCEPT ![p].pc = proc[p].ret, ![p].ret = "done", ![p].result = res]

\* note contents: 0 stands for the empty string, 1 and 2 for two texts
Contents == {0, 1, 2}

\* the vector the provider computes for a text
EmbeddingOf(text) == text + 1

\* index_note(note_id, text) is called in a request of user u
StartIndex(p, u, note_id, text) ==
    /\ proc[p].pc \in {"idle", "done"}
    /\ calls < MaxCalls
    /\ calls' = calls + 1
    /\ proc' = [proc EXCEPT ![p] = [IdleProc EXCEPT !.pc = "ix_embed",
                   !.op = "index_note", !.user = u, !.note = note_id,
                   !.content = text]]
    /\ UNCHANGED <<now, ticks, users, subscription_limits, usage_stats, nextId,
                   notes, acked>>
    /\ UNCHANGED forwardVars

\* embedding = await self.get_embedding(text); except: return False
IxEmbed(p) ==
    /\ proc[p].pc = "ix_embed"
    /\ \/ proc' = [proc EXCEPT ![p].pc = "ix_update",
                                ![p].qe = EmbeddingOf(proc[p].content)]
       \/ proc' = [ReturnIndex(p, "false") EXCEPT ![p].failed = TRUE]
    /\ UNCHANGED <<now, ticks, calls, users, subscription_limits, usage_stats,
                   nextId, notes, acked>>
    /\ UNCHANGED forwardVars

\* the update statement; return len(result.data) > 0; except: return False
IxUpdate(p) ==
    /\ proc[p].pc = "ix_update"
    /\ \/ /\ notes' = IndexedNotes(proc[p].note, proc[p].qe)
          /\ proc' = ReturnIndex(p, IF \E n \in notes : n.id = proc[p].note
                                    THEN "true" ELSE "false")
       \/ /\ notes' = notes
          /\ proc' = [ReturnIndex(p, "false") EXCEPT ![p].failed = TRUE]
    /\ UNCHANGED <<now, ticks, calls, users, subscription_limits, usage_stats,
                   nextId, acked>>
    /\ UNCHANGED forwardVars

\* ------------------------------------------------------------- note store
\* rows with .eq("id", note_id).eq("user_id", user_id)
OwnedRows(note_id, u) == {n \in notes : n.id = note_id /\ n.user_id = u}

\* a service call of one statement has returned
Returned(p, op, u, note_id, res, rows) ==
    [proc EXCEPT ![p] = [IdleProc EXCEPT !.pc = "done", !.op = op, !.user = u,
                           !.note = note_id, !.result = res, !.rows = rows]]

\* get_note(note_id, user_id)
GetNote(p, u, note_id) ==
    /\ proc[p].pc \in {"idle", "done"}
    /\ calls < MaxCalls
    /\ calls' = calls + 1
    /\ proc' = Returned(p, "get_note", u, note_id, "none", OwnedRows(note_id, u))
    /\ UNCHANGED <<now, ticks, users, subscription_limits, usage_stats, nextId,
                   notes, acked>>
    /\ UNCHANGED forwardVars

\* the limit most recent rows of S (order by created_at desc, range 0..limit-1)
RECURSIVE Recent(_, _)
Recent(S, limit) ==
    IF S = {} \/ limit = 0 THEN {}
    ELSE LET n == CHOOSE x \in S : \A y \in S : x.id >= y.id
         IN {n} \cup Recent(S \ {n}, limit - 1)

\* get_notes(user_id, limit, offset = 0)
GetNotes(p, u, limit) ==
    /\ proc[p].pc \in {"idle", "done"}
    /\ calls < MaxCalls
    /\ calls' = calls + 1
    /\ proc' = Returned(p, "get_notes", u, 0, "none",
                        Recent({n \in notes : n.user_id = u}, limit))
    /\ UNCHANGED <<now, ticks, users, subscription_limits, usage_stats, nextId,
                   notes, acked>>
    /\ UNCHANGED forwardVars

\* NoteUpdate values by the fields that are set (exclude_unset): nothing,
\* content, summary
NoteUpdates ==
    {[set |-> {}, content |-> 1, summary |-> FALSE],
     [set |-> {"content"}, content |-> 2, summary |-> FALSE],
     [set |-> {"summary"}, content |-> 1, summary |-> TRUE]}

\* a row with the fields of updates that are set
Updated(n, updates) ==
    [n EXCEPT !.content = IF "content" \in updates.set THEN updates.content
                          ELSE @,
              !.summary = IF "summary" \in updates.set THEN updates.summary
                          ELSE @]

\* update_note(note_id, user_id, note_data)
UpdateNote(p, u, note_id, updates) ==
    /\ proc[p].pc \in {"idle", "done"}
    /\ calls < MaxCalls
    /\ calls' = calls + 1
    /\ notes' = (notes \ OwnedRows(note_id, u)) \cup
                   {Updated(n, updates) : n \in OwnedRows(note_id, u)}
    /\ proc' = Returned(p, "update_note", u, note_id, "none",
                        {Updated(n, updates) : n \in OwnedRows(note_id, u)})
    /\ UNCHANGED <<now, ticks, users, subscription_limits, usage_stats, nextId,
                   acked>>
    /\ UNCHANGED forwardVars

\* delete_note(note_id, user_id)
DeleteNote(p, u, note_id) ==
    /\ proc[p].pc \in {"idle", "done"}
    /\ calls < MaxCalls
    /\ calls' = calls + 1
    /\ notes' = notes \ OwnedRows(note_id, u)
    /\ proc' = Returned(p, "delete_note", u, note_id,
                        IF OwnedRows(note_id, u) # {} THEN "true" ELSE "false",
                        {})
    /\ UNCHANGED <<now, ticks, users, subscription_limits, usage_stats, nextId,
                   acked>>
    /\ UNCHANGED forwardVars

\* update_note_embedding(note_id, embedding), called in a request of user u
UpdateNoteEmbedding(p, u, note_id, v) ==
    /\ proc[p].pc \in {"idle", "done"}
    /\ calls < MaxCalls
    /\ calls' = calls + 1
    /\ notes' = {IF n.id = note_id THEN [n EXCEPT !.embedding = v] ELSE n :
                   n \in notes}
    /\ proc' = Returned(p, "update_note_embedding", u, note_id,
                        IF \E n \in notes : n.id = note_id THEN "true"
                        ELSE "false", {})
    /\ UNCHANGED <<now, ticks, users, subscription_limits, usage_stats, nextId,
                   acked>>
    /\ UNCHANGED forwardVars

\* revoke_share_token(note_id, user_id)
RevokeShareToken(p, u, note_id) ==
    /\ proc[p].pc \in {"idle", "done"}
    /\ calls < MaxCalls
    /\ calls' = calls + 1
    /\ notes' = (notes \ OwnedRows(note_id, u)) \cup
                   {[n EXCEPT !.share_token = NULL, !.is_public = FALSE] :
                      n \in OwnedRows(note_id, u)}
    /\ proc' = Returned(p, "revoke_share_token", u, note_id,
                        IF OwnedRows(note_id, u) # {} THEN "true" ELSE "false",
                        {})
    /\ UNCHANGED <<now, ticks, users, subscription_limits, usage_stats, nextId,
                   acked>>
    /\ UNCHANGED forwardVars

NeverReusable(note, is_public) == FALSE

\* if note.share_token and note.is_public == is_public: return the existing
Reusable(note, is_public) ==
    note.share_token # NULL /\ note.is_public = is_public

\* generate_share_token(note_id, user_id, is_public) is called
StartShare(p, u, note_id, is_public) ==
    /\ proc[p].pc \in {"idle", "done"}
    /\ calls < MaxCalls
    /\ calls' = calls + 1
    /\ proc' = [proc EXCEPT ![p] = [IdleProc EXCEPT !.pc = "gst_get",
                   !.op = "generate_share_token", !.user = u, !.note = note_id,
                   !.summary = is_public]]
    /\ UNCHANGED <<now, ticks, users, subscription_limits, usage_stats, nextId,
                   notes, acked>>
    /\ UNCHANGED forwardVars

\* note = get_note(...); None, or the existing token, or go on to the update
GstGet(p) ==
    /\ proc[p].pc = "gst_get"
    /\ LET found == OwnedRows(proc[p].note, proc[p].user)
       IN IF found = {}
          THEN proc' = [proc EXCEPT ![p].pc = "done", ![p].result = "none"]
          ELSE \E n \in found :
                 IF Reusable(n, proc[p].summary)
                 THEN proc' = [proc EXCEPT ![p].pc = "done",
                                 ![p].result = "token", ![p].rows = {n}]
                 ELSE proc' = [proc EXCEPT ![p].pc = "gst_update",
                                 ![p].rows = {n}]
    /\ UNCHANGED <<now, ticks, calls, users, subscription_limits, usage_stats,
                   nextId, notes, acked>>
    /\ UNCHANGED forwardVars

\* new_token = secrets.token_hex(16); update share_token, is_public
GstUpdate(p) ==
    /\ proc[p].pc = "gst_update"
    /\ LET found == OwnedRows(proc[p].note, proc[p].user)
           new == {[n EXCEPT !.share_token = nextId,
                             !.is_public = proc[p].summary] : n \in found}
       IN /\ notes' = (notes \ found) \cup new
          /\ proc' = [proc EXCEPT ![p].pc = "done", ![p].rows = new,
                         ![p].result = IF found # {} THEN "token" ELSE "none"]
    /\ nextId' = nextId + 1
    /\ UNCHANGED <<now, ticks, calls, users, subscription_limits, usage_stats,
                   acked>>
    /\ UNCHANGED forwardVars

\* the requester of a shared link: a validated user, or nobody
Requesters == Users \cup {"anonymous"}

\* get_note_by_share_token(share_token): the rows holding the token
ByShareToken(share_token) == {n \in notes : n.share_token = share_token}

ReadableByHolder(note, is_owner) == TRUE

\* the negation of: if not note.is_public and not is_owner: raise 403
Readable(note, is_owner) == note.is_public \/ is_owner

\* GET /api/shared/{share_token}: 404 without a row, 403 for a private note
\* and somebody else than its owner, the note otherwise
GetSharedNote(p, requester, share_token) ==
    /\ proc[p].pc \in {"idle", "done"}
    /\ calls < MaxCalls
    /\ calls' = calls + 1
    /\ LET call == [IdleProc EXCEPT !.pc = "done", !.op = "get_shared_note",
                       !.user = requester, !.share_token = share_token]
       IN IF ByShareToken(share_token) = {}
          THEN proc' = [proc EXCEPT ![p] =
                          [call EXCEPT !.outcome = "not_found"]]
          ELSE \E n \in ByShareToken(share_token) :
                 IF Readable(n, requester = n.user_id)
                 THEN proc' = [proc EXCEPT ![p] =
                                 [call EXCEPT !.outcome = "ok", !.rows = {n}]]
                 ELSE proc' = [proc EXCEPT ![p] =
                                 [call EXCEPT !.outcome = "forbidden"]]
    /\ UNCHANGED <<now, ticks, users, subscription_limits, usage_stats, nextId,
                   notes, acked>>
    /\ UNCHANGED forwardVars

\* ---------------------------------------------------------- notes API
\* POST /api/notes: create_note, then index_note(note.id, note.content)
ApiCreateNote(p, u, content) ==
    /\ proc[p].pc = "idle"
    /\ calls < MaxCalls
    /\ calls' = calls + 1
    /\ notes' = notes \cup
                   {[NoteRow(nextId, u, "text", FALSE, NULL)
                       EXCEPT !.content = content]}
    /\ nextId' = nextId + 1
    /\ proc' = [proc EXCEPT ![p] =
                   [IdleProc EXCEPT !.pc = "ix_embed", !.op = "api_create_note",
                       !.user = u, !.note = nextId, !.content = content]]
    /\ UNCHANGED <<now, ticks, users, subscription_limits, usage_stats, acked>>
    /\ UNCHANGED forwardVars

\* NoteUpdate bodies of the API: those of the service, and content = ""
ApiUpdates ==
    NoteUpdates \cup {[set |-> {"content"}, content |-> 0, summary |-> FALSE]}

\* if note_data.content: an unset content is None, "" is falsy as well
TriggersIndex(note_data) ==
    "content" \in note_data.set /\ note_data.content # 0

\* PUT /api/notes/{note_id}: update_note, 404 without a row of the user, then
\* index_note(note.id, note.content) when the body carries a content
ApiUpdateNote(p, u, note_id, note_data) ==
    /\ proc[p].pc = "idle"
    /\ calls < MaxCalls
    /\ calls' = calls + 1
    /\ LET found == OwnedRows(note_id, u)
           call == [IdleProc EXCEPT !.op = "api_update_note", !.user = u,
                                    !.note = note_id]
       IN /\ notes' = (notes \ found) \cup {Updated(n, note_data) : n \in found}
          /\ IF found = {}
             THEN proc' = [proc EXCEPT ![p] =
                             [call EXCEPT !.pc = "done",
                                          !.outcome = "not_found"]]
             ELSE IF TriggersIndex(note_data)
             THEN proc' = [proc EXCEPT ![p] =
                             [call EXCEPT !.pc = "ix_embed",
                                          !.content = note_data.content]]
             ELSE proc' = [proc EXCEPT ![p] = [call EXCEPT !.pc = "done"]]
    /\ UNCHANGED <<now, ticks, users, subscription_limits, usage_stats, nextId,
                   acked>>
    /\ UNCHANGED forwardVars

\* ------------------------------------------------------ forwarded messages
\* a flush task just created by asyncio.create_task: it sleeps
NewFlush(u) == [user |-> u, pc |-> "sleep", messages |-> <<>>, note |-> NULL]

CancelIgnored(tasks, t) == tasks

\* task.cancel(): CancelledError is raised in the task at the await it is
\* suspended in; a finished task is left as it is
Cancel(tasks, t) ==
    [tasks EXCEPT ![t].pc = IF @ \in {"sleep", "index", "send"}
                            THEN "cancelled" ELSE @]

\* handle_text is given a forwarded message of user u; a text that starts
\* with "/" is skipped, any other is buffered, the pending task of the user
\* is cancelled and a new one is created and registered
HandleText(u, command) ==
    /\ calls < MaxCalls
    /\ calls' = calls + 1
    /\ received' = Append(received, [user |-> u, command |-> command])
    /\ IF command
       THEN UNCHANGED <<forwarded_messages_buffer, forwarded_messages_tasks,
                        flushes>>
       ELSE LET old == forwarded_messages_tasks[u]
                kept == IF old # NULL THEN Cancel(flushes, old) ELSE flushes
            IN /\ forwarded_messages_buffer' =
                     [forwarded_messages_buffer EXCEPT
                        ![u] = Append(@, Len(received) + 1)]
               /\ flushes' = Append(kept, NewFlush(u))
               /\ forwarded_messages_tasks' =
                     [forwarded_messages_tasks EXCEPT ![u] = Len(flushes) + 1]
    /\ UNCHANGED <<now, ticks, users, subscription_limits, usage_stats, nextId,
                   notes, proc, acked>>

\* the content of the note of a flush: the texts joined in buffer order
Combined(messages) == messages

\* process_forwarded_messages after its sleep: pops the buffer and the task
\* entry, returns when nothing is buffered, else looks the user up and
\* inserts one note; either store call may raise, which ends the task
PfFlush(t) ==
    /\ t \in DOMAIN flushes
    /\ flushes[t].pc = "sleep"
    /\ LET u == flushes[t].user
           messages == forwarded_messages_buffer[u]
       IN /\ forwarded_messages_buffer' =
                [forwarded_messages_buffer EXCEPT ![u] = <<>>]
          /\ forwarded_messages_tasks' =
                [forwarded_messages_tasks EXCEPT ![u] = NULL]
          /\ IF messages = <<>>
             THEN /\ flushes' = [flushes EXCEPT ![t].pc = "done"]
                  /\ UNCHANGED <<notes, nextId>>
             ELSE \/ /\ flushes' = [flushes EXCEPT ![t].pc = "failed",
                                                    ![t].messages = messages]
                     /\ UNCHANGED <<notes, nextId>>
                  \/ /\ notes' = notes \cup
                           {[NoteRow(nextId, u, "text", FALSE, NULL)
                               EXCEPT !.content = Combined(messages)]}
                     /\ nextId' = nextId + 1
                     /\ flushes' = [flushes EXCEPT ![t].pc = "index",
                                                    ![t].messages = messages,
                                                    ![t].note = nextId]
    /\ UNCHANGED <<now, ticks, calls, users, subscription_limits, usage_stats,
                   proc, acked, received>>

\* await rag_service.index_note(note.id, combined_text): the embedding is
\* stored, or index_note caught a failure and returned False
PfIndex(t) ==
    /\ t \in DOMAIN flushes
    /\ flushes[t].pc = "index"
    /\ \/ \E v \in Vectors : notes' = IndexedNotes(flushes[t].note, v)
       \/ notes' = notes
    /\ flushes' = [flushes EXCEPT ![t].pc = "send"]
    /\ UNCHANGED <<now, ticks, calls, users, subscription_limits, usage_stats,
                   nextId, proc, acked, forwarded_messages_buffer,
                   forwarded_messages_tasks, received>>

\* await bot.send_message(chat_id, ...): the confirmation, the last statement
PfSend(t) ==
    /\ t \in DOMAIN flushes
    /\ flushes[t].pc = "send"
    /\ flushes' = [flushes EXCEPT ![t].pc = "done"]
    /\ UNCHANGED <<now, ticks, calls, users, subscription_limits, usage_stats,
                   nextId, notes, proc, acked, forwarded_messages_buffer,
                   forwarded_messages_tasks, received>>

\* ------------------------------------------------------------------ cmd_ask
\* /ask <question> arrives from user u
StartAsk(p, u) ==
    /\ proc[p].pc \in {"idle", "done"}
    /\ calls < MaxCalls
    /\ calls' = calls + 1
    /\ proc' = [proc EXCEPT ![p] = [IdleProc EXCEPT !.pc = "ca_check",
                   !.op = "cmd_ask", !.user = u]]
    /\ UNCHANGED <<now, ticks, users, subscription_limits, usage_stats, nextId,
                   notes, acked>>
    /\ UNCHANGED forwardVars

\* the reasons cmd_ask answers with a refusal: if reason == "free_plan" ...
\* elif reason == "not_available"
HandledChatDenials == {"free_plan", "not_available"}

\* can_use, plan, reason = can_use_feature(user.id, "chat"); the two handled
\* denials return, anything else goes on to search_with_threshold
CaCheck(p) ==
    /\ proc[p].pc = "ca_check"
    /\ users' = WriteThrough(users[proc[p].user], proc[p].user, now)
    /\ \E info \in InfoResults(users[proc[p].user], proc[p].user, now) :
         LET c == CanUseFeature(info, "chat")
         IN IF ~c.allowed /\ c.reason \in HandledChatDenials
            THEN proc' = [Finish(p, "denied") EXCEPT ![p].check = c]
            ELSE proc' = [EnterSearch(p, AskLimit, AskMinSimilarity, "ca_answer")
                            EXCEPT ![p].check = c]
    /\ UNCHANGED <<now, ticks, calls, subscription_limits, usage_stats, nextId,
                   notes, acked>>
    /\ UNCHANGED forwardVars

\* if not results: return; answer = ask(...); increment_usage(chat_messages, 1)
CaAnswer(p) ==
    /\ proc[p].pc = "ca_answer"
    /\ IF proc[p].results = <<>>
       THEN proc' = Finish(p, "no_results")
       ELSE proc' = EnterIncrement(p, proc[p].user, "chat_messages", 1, "ca_reply")
    /\ UNCHANGED <<now, ticks, calls, users, subscription_limits, usage_stats,
                   nextId, notes, acked>>
    /\ UNCHANGED forwardVars

\* status_msg.edit_text(answer)
CaReply(p) ==
    /\ proc[p].pc = "ca_reply"
    /\ proc' = Finish(p, "answered")
    /\ UNCHANGED <<now, ticks, calls, users, subscription_limits, usage_stats,
                   nextId, notes, acked>>
    /\ UNCHANGED forwardVars

\* ------------------------------------------------------------ initial state
\* user rows as the store can hold them before the first request
InitialUserRows ==
    {UserRow("free", e, NULL, NULL) : e \in {0}} \cup
    {UserRow("trial", e, NULL, NULL) : e \in {NULL, 0}} \cup
    {UserRow(pl, NULL, 0, e) : pl \in PaidPlans, e \in {NULL, 0}}

InitLocal ==
    /\ now = 0
    /\ ticks = 0
    /\ calls = 0
    /\ usage_stats = {}
    /\ nextId = 1
    /\ notes = {}
    /\ proc = [p \in Procs |-> IdleProc]
    /\ acked = [k \in {} |-> 0]
    /\ NoForwards

\* metering: both users on a paid plan that does not expire; the store is
\* empty, or holds the record of one acknowledged summary of u1 this month
InitUsage ==
    /\ now = 0
    /\ ticks = 0
    /\ calls = 0
    /\ notes = {}
    /\ proc = [p \in Procs |-> IdleProc]
    /\ \/ /\ usage_stats = {}
          /\ nextId = 1
          /\ acked = [k \in {} |-> 0]
       \/ /\ usage_stats = {NewUsageRow(1, "u1", 0, "summaries_used", 1)}
          /\ nextId = 2
          /\ acked = [k \in {<<"u1", 0, "summaries_used">>} |-> 1]
    /\ users = [u \in Users |-> UserRow("pro", NULL, 0, NULL)]
    /\ subscription_limits = LimitsTable
    /\ NoForwards

\* subscription reads: any stored plan, reference table possibly short a row
InitPlan ==
    /\ InitLocal
    /\ \E row \in InitialUserRows :
         users = [u \in Users |-> IF u = "u1" THEN row
                                  ELSE UserRow("trial", 0, NULL, NULL)]
    /\ subscription_limits \in {LimitsTable} \cup {WithoutRow(pl) : pl \in Plans}

\* voice messages: a free user, or a pro user one second below the month's
\* voice quota; the reference table is complete
InitVoice ==
    /\ now = 0
    /\ ticks = 0
    /\ calls = 0
    /\ nextId = 2
    /\ notes = {}
    /\ proc = [p \in Procs |-> IdleProc]
    /\ acked = [k \in {} |-> 0]
    /\ \E pl \in {"free", "pro"} :
         users = [u \in Users |-> IF u = "u1" THEN UserRow(pl, 0, 0, NULL)
                                  ELSE UserRow("trial", 0, NULL, NULL)]
    /\ usage_stats =
         {NewUsageRow(1, "u1", 0, "voice_seconds_used",
                      ProVoiceMinutes * SecondsPerMinute - 1)}
    /\ subscription_limits = LimitsTable
    /\ NoForwards

\* monthly quota: a pro user without expiry whose record of this month is at
\* the summaries quota, or one below it
InitQuota ==
    /\ now = 0
    /\ ticks = 0
    /\ calls = 0
    /\ nextId = 2
    /\ notes = {}
    /\ proc = [p \in Procs |-> IdleProc]
    /\ acked = [k \in {} |-> 0]
    /\ users = [u \in Users |-> IF u = "u1" THEN UserRow("pro", NULL, 0, NULL)
                                 ELSE UserRow("trial", 0, NULL, NULL)]
    /\ \E used \in {ProSummaries - 1, ProSummaries} :
         usage_stats = {NewUsageRow(1, "u1", 0, "summaries_used", used)}
    /\ subscription_limits = LimitsTable
    /\ NoForwards

\* refusals: u1 on pro with this month's voice seconds at the quota, u2 on
\* ultra, with or without a limits row for ultra
InitDeny ==
    /\ now = 0
    /\ ticks = 0
    /\ calls = 0
    /\ nextId = 2
    /\ notes = {}
    /\ proc = [p \in Procs |-> IdleProc]
    /\ acked = [k \in {} |-> 0]
    /\ users = [u \in Users |-> IF u = "u1" THEN UserRow("pro", NULL, 0, NULL)
                                 ELSE UserRow("ultra", NULL, 0, NULL)]
    /\ usage_stats = {NewUsageRow(1, "u1", 0, "voice_seconds_used",
                                  ProVoiceMinutes * SecondsPerMinute)}
    /\ subscription_limits \in {LimitsTable, WithoutRow("ultra")}
    /\ NoForwards

\* lapsed subscriptions: at day 1 the trial of u1 and the pro period of u2
\* ended at day 0 and no read has downgraded them yet
InitLapsed ==
    /\ now = 1
    /\ ticks = 0
    /\ calls = 0
    /\ nextId = 1
    /\ notes = {}
    /\ usage_stats = {}
    /\ proc = [p \in Procs |-> IdleProc]
    /\ acked = [k \in {} |-> 0]
    /\ users = [u \in Users |-> IF u = "u1" THEN UserRow("trial", 0, NULL, NULL)
                                 ELSE UserRow("pro", NULL, 0, 0)]
    /\ subscription_limits = LimitsTable
    /\ NoForwards

\* notes of two users as earlier requests left them: indexed, or not yet
SeedNotes ==
    {NoteRow(1, "u1", "text", FALSE, 1), NoteRow(2, "u2", "text", FALSE, 1),
     NoteRow(3, "u1", "voice", TRUE, 2), NoteRow(4, "u1", "text", FALSE, NULL)}

\* questions: any stored plan of the asking user, a complete reference table
InitAsk ==
    /\ now = 0
    /\ ticks = 0
    /\ calls = 0
    /\ usage_stats = {}
    /\ nextId = 5
    /\ notes = SeedNotes
    /\ proc = [p \in Procs |-> IdleProc]
    /\ acked = [k \in {} |-> 0]
    /\ \E row \in InitialUserRows :
         users = [u \in Users |-> IF u = "u1" THEN row
                                  ELSE UserRow("pro", NULL, 0, NULL)]
    /\ subscription_limits = LimitsTable
    /\ NoForwards

\* the note store with notes of two users; both users on a plan that does
\* not expire
InitNotes ==
    /\ now = 0
    /\ ticks = 0
    /\ calls = 0
    /\ usage_stats = {}
    /\ nextId = 5
    /\ notes = SeedNotes
    /\ proc = [p \in Procs |-> IdleProc]
    /\ acked = [k \in {} |-> 0]
    /\ users = [u \in Users |-> UserRow("pro", NULL, 0, NULL)]
    /\ subscription_limits = LimitsTable
    /\ NoForwards

\* notes that already carry share tokens: a private one of u1, a public one
\* of u2
SharedNotes ==
    {[NoteRow(1, "u1", "text", FALSE, 1) EXCEPT !.share_token = 1],
     [NoteRow(2, "u2", "text", FALSE, 1) EXCEPT !.share_token = 2,
                                              !.is_public = TRUE],
     NoteRow(3, "u1", "voice", TRUE, 2)}

InitShare ==
    /\ now = 0
    /\ ticks = 0
    /\ calls = 0
    /\ usage_stats = {}
    /\ nextId = 5
    /\ notes = SharedNotes
    /\ proc = [p \in Procs |-> IdleProc]
    /\ acked = [k \in {} |-> 0]
    /\ users = [u \in Users |-> UserRow("pro", NULL, 0, NULL)]
    /\ subscription_limits = LimitsTable
    /\ NoForwards

\* one note of u1, indexed with the vector of its content
InitContent ==
    /\ now = 0
    /\ ticks = 0
    /\ calls = 0
    /\ usage_stats = {}
    /\ nextId = 2
    /\ notes = {NoteRow(1, "u1", "text", FALSE, EmbeddingOf(1))}
    /\ proc = [p \in Procs |-> IdleProc]
    /\ acked = [k \in {} |-> 0]
    /\ users = [u \in Users |-> UserRow("pro", NULL, 0, NULL)]
    /\ subscription_limits = LimitsTable
    /\ NoForwards

\* the bot has just started: registered users, no notes, nothing buffered
InitForward ==
    /\ now = 0
    /\ ticks = 0
    /\ calls = 0
    /\ usage_stats = {}
    /\ nextId = 1
    /\ notes = {}
    /\ proc = [p \in Procs |-> IdleProc]
    /\ acked = [k \in {} |-> 0]
    /\ users = [u \in Users |-> UserRow("pro", NULL, 0, NULL)]
    /\ subscription_limits = LimitsTable
    /\ NoForwards

\* --------------------------------------------------------- specifications
\* concurrent metered requests of one user (two devices)
NextUsage ==
    \/ \E p \in Procs, u \in {"u1"}, t \in UsageTypes, a \in Amounts :
          StartIncrement(p, u, t, a)
    \/ \E p \in Procs : IncSelect(p)
    \/ \E p \in Procs : IncWrite(p)
    \/ \E p \in Procs : IncFail(p)
    \/ Tick(DaysPerMonth)

SpecUsage == InitUsage /\ [][NextUsage]_vars

\* one metering caller next to readers of GET /api/subscription
NextRead ==
    \/ \E u \in Users, t \in UsageTypes, a \in Amounts : StartIncrement(1, u, t, a)
    \/ \E p \in Procs : IncSelect(p)
    \/ \E p \in Procs : IncWrite(p)
    \/ \E p \in Procs : IncFail(p)
    \/ \E p \in Procs \ {1}, u \in Users : StartRead(p, u)
    \/ \E p \in Procs : GsiFetch(p)
    \/ \E p \in Procs : GsiFinish(p)
    \/ Tick(DaysPerMonth)

SpecRead == InitUsage /\ [][NextRead]_vars

\* subscription reads and payments of one user over time
NextPlan ==
    \/ \E p \in Procs, u \in {"u1"} : StartRead(p, u)
    \/ \E p \in Procs : GsiFetch(p)
    \/ \E p \in Procs : GsiFinish(p)
    \/ \E p \in Procs, u \in {"u1"}, pl \in PaidPlans, bp \in BillingPeriods :
          ActivateSubscription(p, u, pl, bp)
    \/ \E d \in TickSteps : Tick(d)

SpecPlan == InitPlan /\ [][NextPlan]_vars

\* voice messages of one user, handled one after the other
NextVoice ==
    \/ \E u \in {"u1"}, d \in Durations : StartVoice(1, u, d)
    \/ \E p \in Procs : HvCheckVoice(p)
    \/ \E p \in Procs : HvTranscribe(p)
    \/ \E p \in Procs : IncSelect(p)
    \/ \E p \in Procs : IncWrite(p)
    \/ \E p \in Procs : IncFail(p)
    \/ \E p \in Procs : HvCheckSummary(p)
    \/ \E p \in Procs : HvSummarize(p)
    \/ \E p \in Procs : HvCreateNote(p)
    \/ \E p \in Procs : HvIndex(p)
    \/ Tick(DaysPerMonth)

SpecVoice == InitVoice /\ [][NextVoice]_vars

\* voice messages of one user across a month boundary, handled one after the
\* other
NextQuota ==
    \/ \E d \in Durations : StartVoice(1, "u1", d)
    \/ \E p \in Procs : HvCheckVoice(p)
    \/ \E p \in Procs : HvTranscribe(p)
    \/ \E p \in Procs : IncSelect(p)
    \/ \E p \in Procs : IncWrite(p)
    \/ \E p \in Procs : IncFail(p)
    \/ \E p \in Procs : HvCheckSummary(p)
    \/ \E p \in Procs : HvSummarize(p)
    \/ \E p \in Procs : HvCreateNote(p)
    \/ \E p \in Procs : HvIndex(p)
    \/ Tick(DaysPerMonth)

SpecQuota == InitQuota /\ [][NextQuota]_vars

\* a question and a voice message at a time, of users that are refused or
\* served
NextDeny ==
    \/ \E u \in Users : StartAsk(1, u)
    \/ \E u \in Users, d \in Durations : StartVoice(2, u, d)
    \/ \E p \in Procs : CaCheck(p)
    \/ \E p \in Procs : SeEmbed(p)
    \/ \E p \in Procs : SeRpc(p)
    \/ \E p \in Procs : CaAnswer(p)
    \/ \E p \in Procs : CaReply(p)
    \/ \E p \in Procs : HvCheckVoice(p)
    \/ \E p \in Procs : HvTranscribe(p)
    \/ \E p \in Procs : HvCheckSummary(p)
    \/ \E p \in Procs : HvSummarize(p)
    \/ \E p \in Procs : HvCreateNote(p)
    \/ \E p \in Procs : HvIndex(p)
    \/ \E p \in Procs : IncSelect(p)
    \/ \E p \in Procs : IncWrite(p)
    \/ \E p \in Procs : IncFail(p)

SpecDeny == InitDeny /\ [][NextDeny]_vars

\* two voice messages of one user handled at the same time (two devices)
NextRace ==
    \/ \E p \in {1, 2} : StartVoice(p, "u1", NULL)
    \/ \E p \in Procs : HvCheckVoice(p)
    \/ \E p \in Procs : HvTranscribe(p)
    \/ \E p \in Procs : IncSelect(p)
    \/ \E p \in Procs : IncWrite(p)
    \/ \E p \in Procs : IncFail(p)
    \/ \E p \in Procs : HvCheckSummary(p)
    \/ \E p \in Procs : HvSummarize(p)
    \/ \E p \in Procs : HvCreateNote(p)
    \/ \E p \in Procs : HvIndex(p)

SpecRace == InitQuota /\ [][NextRace]_vars

\* reads of lapsed subscriptions next to activations, at one instant
NextLapsed ==
    \/ \E p \in Procs, u \in Users : StartRead(p, u)
    \/ \E p \in Procs : GsiFetch(p)
    \/ \E p \in Procs : GsiFinish(p)
    \/ \E p \in Procs, u \in Users, plan \in PaidPlans,
          period \in BillingPeriods : ActivateSubscription(p, u, plan, period)

SpecLapsed == InitLapsed /\ [][NextLapsed]_vars

\* /ask questions of one user over time, handled one after the other
NextAsk ==
    \/ StartAsk(1, "u1")
    \/ \E p \in Procs : CaCheck(p)
    \/ \E p \in Procs : SeEmbed(p)
    \/ \E p \in Procs : SeRpc(p)
    \/ \E p \in Procs : CaAnswer(p)
    \/ \E p \in Procs : IncSelect(p)
    \/ \E p \in Procs : IncWrite(p)
    \/ \E p \in Procs : IncFail(p)
    \/ \E p \in Procs : CaReply(p)
    \/ \E d \in {1, DaysPerMonth} : Tick(d)

SpecAsk == InitAsk /\ [][NextAsk]_vars

\* payment confirmations and subscription reads of one user over time
NextPay ==
    \/ \E p \in Procs, pay \in Payments : StartPayment(p, pay)
    \/ \E p \in Procs : PsActivate(p)
    \/ \E p \in Procs : StartRead(p, "u1")
    \/ \E p \in Procs : GsiFetch(p)
    \/ \E p \in Procs : GsiFinish(p)
    \/ \E d \in {1, DaysPerMonth} : Tick(d)

SpecPay == InitAsk /\ [][NextPay]_vars

\* note-store calls and index_note in requests of two users
NextNotes ==
    \/ \E p \in Procs, u \in Users, id \in NoteIds : GetNote(p, u, id)
    \/ \E p \in Procs, u \in Users, k \in ListLimits : GetNotes(p, u, k)
    \/ \E p \in Procs, u \in Users, id \in NoteIds, upd \in NoteUpdates :
          UpdateNote(p, u, id, upd)
    \/ \E p \in Procs, u \in Users, id \in NoteIds : DeleteNote(p, u, id)
    \/ \E p \in Procs, u \in Users, id \in NoteIds, v \in Vectors :
          UpdateNoteEmbedding(p, u, id, v)
    \/ \E p \in Procs, u \in Users, id \in NoteIds : RevokeShareToken(p, u, id)
    \/ \E p \in Procs, u \in Users, id \in NoteIds, pub \in BOOLEAN :
          StartShare(p, u, id, pub)
    \/ \E p \in Procs : GstGet(p)
    \/ \E p \in Procs : GstUpdate(p)
    \/ \E p \in Procs, u \in Users, id \in NoteIds, text \in Contents :
          StartIndex(p, u, id, text)
    \/ \E p \in Procs : IxEmbed(p)
    \/ \E p \in Procs : IxUpdate(p)

SpecNotes == InitNotes /\ [][NextNotes]_vars

\* share links: issued, revoked and followed by owners and strangers
NextShare ==
    \/ \E p \in Procs, u \in Users, id \in NoteIds, pub \in BOOLEAN :
          StartShare(p, u, id, pub)
    \/ \E p \in Procs : GstGet(p)
    \/ \E p \in Procs : GstUpdate(p)
    \/ \E p \in Procs, u \in Users, id \in NoteIds : RevokeShareToken(p, u, id)
    \/ \E p \in Procs, r \in Requesters, tok \in 1..nextId :
          GetSharedNote(p, r, tok)

SpecShare == InitShare /\ [][NextShare]_vars

\* notes created and edited through the API, one request per slot
NextContent ==
    \/ \E p \in Procs, u \in Users, c \in Contents : ApiCreateNote(p, u, c)
    \/ \E p \in Procs, u \in Users, id \in {1, 2}, d \in ApiUpdates :
          ApiUpdateNote(p, u, id, d)
    \/ \E p \in Procs : IxEmbed(p)
    \/ \E p \in Procs : IxUpdate(p)

SpecContent == InitContent /\ [][NextContent]_vars

\* forwarded messages of the users, and the flush tasks they create
NextForward ==
    \/ \E u \in Users, command \in BOOLEAN : HandleText(u, command)
    \/ \E t \in 1..MaxCalls : PfFlush(t)
    \/ \E t \in 1..MaxCalls : PfIndex(t)
    \/ \E t \in 1..MaxCalls : PfSend(t)

SpecForward == InitForward /\ [][NextForward]_vars

\* index_note next to the calls that change or remove the row it writes
NextIndex ==
    \/ \E p \in Procs, u \in Users, id \in NoteIds, text \in Contents :
          StartIndex(p, u, id, text)
    \/ \E p \in Procs : IxEmbed(p)
    \/ \E p \in Procs : IxUpdate(p)
    \/ \E p \in Procs, id \in NoteIds : DeleteNote(p, "u1", id)
    \/ \E p \in Procs, id \in NoteIds, upd \in NoteUpdates :
          UpdateNote(p, "u1", id, upd)

SpecIndex == InitNotes /\ [][NextIndex]_vars

\* searches of two users next to one indexer changing what is indexed
NextSearch ==
    \/ \E p \in Procs \ {1}, u \in Users, k \in SearchLimits,
          m \in MinSimilarities : StartSearch(p, u, k, m)
    \/ \E p \in Procs : SeEmbed(p)
    \/ \E p \in Procs : SeRpc(p)
    \/ \E id \in NoteIds, text \in Contents : StartIndex(1, "u1", id, text)
    \/ \E p \in Procs : IxEmbed(p)
    \/ \E p \in Procs : IxUpdate(p)

SpecSearch == InitNotes /\ [][NextSearch]_vars

\* get_embedding on texts around the character budget, in two requests
NextEmbed ==
    \/ \E p \in {1, 2}, text \in Texts : StartEmbed(p, text)
    \/ \E p \in Procs : GeCreate(p)

SpecEmbed == InitNotes /\ [][NextEmbed]_vars

\* ================================================================ claims
AllQuiet == \A p \in Procs : proc[p].pc \in {"idle", "done"}

ReadReturns(p) == proc[p].pc = "gsi_finish" /\ proc'[p].pc = "done"

ReadDone(p) == proc[p].op = "get_subscription_info" /\ proc[p].pc = "done"

\* C1: when all concurrent increment_usage calls of a user, usage type and
\* month have returned, the stored counter equals the sum of the amounts of
\* the calls that returned True (N calls of amount 1 leave it N higher).
C1_NoLostUpdate ==
    AllQuiet =>
      \A k \in DOMAIN acked : StoredTotal(k[1], k[2], k[3]) = acked[k]

\* C2: at most one usage record exists per (user, month) in every state.
C2_OneRecordPerUserMonth ==
    \A r1, r2 \in usage_stats :
      (r1.user_id = r2.user_id /\ r1.month_start = r2.month_start) => r1 = r2

\* C3: no counter of a usage record decreases from one state to the next.
C3_CountersNeverDecrease ==
    [][\A r \in usage_stats : \A s \in usage_stats' :
         s.id = r.id =>
           /\ s.summaries_used >= r.summaries_used
           /\ s.voice_seconds_used >= r.voice_seconds_used
           /\ s.chat_messages_used >= r.chat_messages_used]_vars

\* C4: a voice handler in which a statement of increment_usage failed got
\* False back (no exception reached it) and, once finished, has gone through
\* create_note: the note is stored, unless the notes insert itself failed.
C4_MeteringFailureDoesNotBlock ==
    \A p \in Procs :
      (proc[p].op = "handle_voice" /\ proc[p].failed) =>
        /\ proc[p].result # "raised"
        /\ proc[p].pc = "hv_check_summary" => proc[p].result = "false"
        /\ proc[p].pc = "done" =>
             /\ proc[p].outcome \in {"saved", "create_failed"}
             /\ proc[p].outcome = "saved" =>
                  \E n \in notes : n.id = proc[p].note /\ n.user_id = proc[p].user

C4_Witness ==
    \E p \in Procs :
      /\ proc[p].op = "handle_voice"
      /\ proc[p].failed
      /\ proc[p].pc = "done"
      /\ proc[p].outcome = "saved"
      /\ \E n \in notes : n.id = proc[p].note /\ n.user_id = proc[p].user

\* C5: a read that fetched a trial row past trial_ends_at, or a pro/ultra row
\* past subscription_expires_at, returns free and leaves free stored; a read
\* that fetched a free row returns free and writes nothing.
C5_LazyExpiryWriteThrough ==
    [][\A p \in Procs : ReadReturns(p) =>
         LET row == proc[p].row
             u == proc[p].user
         IN /\ ( \/ /\ row.subscription_plan = "trial"
                     /\ row.trial_ends_at # NULL
                     /\ row.trial_ends_at < now
                  \/ /\ row.subscription_plan \in {"pro", "ultra"}
                     /\ row.subscription_expires_at # NULL
                     /\ row.subscription_expires_at < now )
               => /\ proc'[p].info.plan = "free"
                  /\ users'[u].subscription_plan = "free"
            /\ row.subscription_plan = "free"
               => /\ proc'[p].info.plan = "free"
                  /\ users' = users]_vars

C5_Witness ==
    \E p \in Procs :
      /\ ReadDone(p)
      /\ proc[p].row.subscription_plan = "trial"
      /\ proc[p].row.trial_ends_at # NULL
      /\ proc[p].row.trial_ends_at < now
      /\ proc[p].info.plan = "free"
      /\ users[proc[p].user].subscription_plan = "free"

\* C6: a read that fetched a trial row with trial_ends_at unset, or a
\* pro/ultra row with subscription_expires_at unset, returns the stored plan
\* and leaves the users table as it was, whatever the time.
C6_NoExpiryNeverExpires ==
    [][\A p \in Procs : ReadReturns(p) =>
         LET row == proc[p].row
         IN ( \/ row.subscription_plan = "trial" /\ row.trial_ends_at = NULL
              \/ /\ row.subscription_plan \in {"pro", "ultra"}
                 /\ row.subscription_expires_at = NULL )
            => /\ proc'[p].info.plan = row.subscription_plan
               /\ users' = users]_vars

C6_Witness ==
    \E p \in Procs :
      /\ ReadDone(p)
      /\ now > 0
      /\ proc[p].row.subscription_plan = "trial"
      /\ proc[p].row.trial_ends_at = NULL
      /\ proc[p].info.plan = "trial"
      /\ users[proc[p].user] = proc[p].row

\* C7 as stated: the stored plan changes only trial -> free, trial -> paid
\* or paid -> free.
C7_OnlyListedTransitions ==
    [][\A u \in Users :
         LET a == users[u].subscription_plan
             b == users'[u].subscription_plan
         IN a # b => \/ a = "trial" /\ b = "free"
                     \/ a = "trial" /\ b \in {"pro", "ultra"}
                     \/ a \in {"pro", "ultra"} /\ b = "free"]_vars

\* C7 amended: the stored plan changes only to free, by a read that fetched a
\* trial/pro/ultra row past its expiry timestamp, or to the purchased
\* pro/ultra plan, by activate_subscription from any stored plan; it never
\* changes to trial.
C7_PlanTransitions ==
    [][\A u \in Users :
         LET a == users[u].subscription_plan
             b == users'[u].subscription_plan
         IN a # b =>
              \/ /\ b = "free"
                 /\ \E p \in Procs :
                      /\ ReadReturns(p)
                      /\ proc[p].user = u
                      /\ \/ /\ proc[p].row.subscription_plan = "trial"
                            /\ proc[p].row.trial_ends_at # NULL
                            /\ proc[p].row.trial_ends_at < now
                         \/ /\ proc[p].row.subscription_plan \in {"pro", "ultra"}
                            /\ proc[p].row.subscription_expires_at # NULL
                            /\ proc[p].row.subscription_expires_at < now
              \/ /\ b \in {"pro", "ultra"}
                 /\ calls' = calls + 1
                 /\ \E p \in Procs :
                      /\ proc'[p].op = "activate_subscription"
                      /\ proc'[p].user = u
                      /\ users'[u].subscription_started_at = now]_vars

C7_Witness ==
    \E p, q \in Procs :
      /\ ReadDone(p)
      /\ proc[p].row.subscription_plan = "trial"
      /\ proc[p].info.plan = "free"
      /\ proc[q].op = "activate_subscription"
      /\ proc[q].user = proc[p].user
      /\ users[proc[p].user].subscription_plan \in {"pro", "ultra"}
      /\ users[proc[p].user].subscription_started_at > proc[p].row.trial_ends_at

\* C8: a read whose plan has no row in subscription_limits returns zero
\* quotas and every entitlement false.
C8_UnknownPlanMostRestrictive ==
    \A p \in Procs :
      (ReadDone(p) /\ proc[p].info.plan \notin DOMAIN subscription_limits) =>
        /\ proc[p].info.limits.summaries_per_month = 0
        /\ proc[p].info.limits.voice_minutes_per_month = 0
        /\ ~proc[p].info.limits.ai_chat_enabled
        /\ ~proc[p].info.limits.ai_chat_fast
        /\ ~proc[p].info.limits.sync_enabled
        /\ ~proc[p].info.limits.auto_sync

\* C9: a subscription read leaves the set of usage_stats rows as it was and,
\* when the user has no record for the current month, returns all-zero
\* counters.
C9_ReadCreatesNoUsageRow ==
    [][\A p \in Procs : ReadReturns(p) =>
         /\ usage_stats' = usage_stats
         /\ (~\E r \in usage_stats :
                 /\ r.user_id = proc[p].user
                 /\ r.month_start = now - (now % DaysPerMonth))
            => /\ proc'[p].info.usage.summaries_used = 0
               /\ proc'[p].info.usage.voice_seconds_used = 0
               /\ proc'[p].info.usage.chat_messages_used = 0]_vars

C9_Witness ==
    \E p \in Procs :
      /\ ReadDone(p)
      /\ proc[p].info.usage.summaries_used = 0
      /\ proc[p].info.usage.voice_seconds_used = 0
      /\ proc[p].info.usage.chat_messages_used = 0
      /\ \E r \in usage_stats :
           /\ r.user_id = proc[p].user
           /\ r.month_start < now - (now % DaysPerMonth)
           /\ r.summaries_used + r.voice_seconds_used + r.chat_messages_used > 0
      /\ ~\E r \in usage_stats :
           /\ r.user_id = proc[p].user
           /\ r.month_start = now - (now % DaysPerMonth)

CheckVoiceReturns(p) ==
    proc[p].pc = "hv_check_voice" /\ proc'[p].pc # "hv_check_voice"

\* C10: for a resolved plan on which voice is not forbidden and whose
\* voice_minutes_per_month is a number Q, the voice check of handle_voice is
\* denied with limit_reached exactly when this month's voice_seconds_used is
\* at least Q * 60, and allowed below that (at Q * 60 - 1 in particular).
C10_VoiceQuotaBoundary ==
    [][\A p \in Procs : CheckVoiceReturns(p) =>
         LET c == proc'[p].check
             rows == {r \in usage_stats :
                        /\ r.user_id = proc[p].user
                        /\ r.month_start = now - (now % DaysPerMonth)}
             usedNow == IF rows = {} THEN {0}
                        ELSE {r.voice_seconds_used : r \in rows}
         IN ( /\ c.plan # "free"
              /\ c.plan \in DOMAIN subscription_limits
              /\ subscription_limits[c.plan].voice_minutes_per_month # NULL )
            => \E used \in usedNow :
                 LET q == subscription_limits[c.plan].voice_minutes_per_month
                 IN /\ (~c.allowed /\ c.reason = "limit_reached") <=> used >= q * 60
                    /\ used < q * 60 => c.allowed]_vars

C10_Witness ==
    \E p \in Procs :
      /\ proc[p].op = "handle_voice"
      /\ proc[p].outcome = "denied"
      /\ proc[p].check.plan = "pro"
      /\ proc[p].check.reason = "limit_reached"
      /\ \E r \in usage_stats :
           /\ r.user_id = proc[p].user
           /\ r.month_start = now - (now % DaysPerMonth)
           /\ r.voice_seconds_used =
                subscription_limits["pro"].voice_minutes_per_month * 60
      /\ \E n \in notes : n.user_id = proc[p].user /\ n.source = "voice"

CheckSummaryReturns(p) ==
    proc[p].pc = "hv_check_summary" /\ proc'[p].pc # "hv_check_summary"

\* C11: for a pro user with summaries_per_month = Q, the summary check of
\* handle_voice is denied with limit_reached when the record of the current
\* month holds summaries_used >= Q, and allowed when the current month has no
\* record or a record below Q, whatever records of earlier months hold; the
\* clock alone changes no record, and every record is keyed by the first day
\* of a month not later than the current one.
C11_MonthlyWindowReset ==
    [][/\ \A p \in Procs : CheckSummaryReturns(p) =>
            LET c == proc'[p].check
                rows == {r \in usage_stats :
                           /\ r.user_id = proc[p].user
                           /\ r.month_start = now - (now % DaysPerMonth)}
                usedNow == IF rows = {} THEN {0}
                           ELSE {r.summaries_used : r \in rows}
            IN c.plan = "pro" =>
                 \E used \in usedNow :
                   /\ used >= ProSummaries
                        => (~c.allowed /\ c.reason = "limit_reached")
                   /\ used < ProSummaries => (c.allowed /\ c.reason = "none")
       /\ now' # now => usage_stats' = usage_stats
       /\ \A r \in usage_stats' :
            /\ r.month_start % DaysPerMonth = 0
            /\ r.month_start <= now']_vars

C11_Witness ==
    \E p \in Procs :
      /\ proc[p].op = "handle_voice" /\ proc[p].pc = "done"
      /\ proc[p].outcome = "saved"
      /\ proc[p].check = [allowed |-> TRUE, plan |-> "pro", reason |-> "none"]
      /\ now >= DaysPerMonth
      /\ \E r \in usage_stats :
           /\ r.user_id = proc[p].user
           /\ r.month_start < now - (now % DaysPerMonth)
           /\ r.summaries_used >= ProSummaries
      /\ \E r \in usage_stats :
           /\ r.user_id = proc[p].user
           /\ r.month_start = now - (now % DaysPerMonth)
           /\ r.summaries_used = 1
      /\ \E n \in notes : n.id = proc[p].note /\ n.summary

CheckChatReturns(p) == proc[p].pc = "ca_check" /\ proc'[p].pc # "ca_check"

\* C12: when the chat check of cmd_ask runs for a user whose stored plan is
\* free, or trial past trial_ends_at, or pro/ultra past
\* subscription_expires_at, it returns (false, free, free_plan), the handler
\* stops there, and free is the stored plan when the check has returned.
C12_ChatCheckAfterLazyExpiry ==
    [][\A p \in Procs : CheckChatReturns(p) =>
         LET row == users[proc[p].user]
         IN ( \/ row.subscription_plan = "free"
              \/ /\ row.subscription_plan = "trial"
                 /\ row.trial_ends_at # NULL
                 /\ row.trial_ends_at < now
              \/ /\ row.subscription_plan \in {"pro", "ultra"}
                 /\ row.subscription_expires_at # NULL
                 /\ row.subscription_expires_at < now )
            => /\ proc'[p].check = [allowed |-> FALSE, plan |-> "free",
                                    reason |-> "free_plan"]
               /\ proc'[p].pc = "done"
               /\ proc'[p].outcome = "denied"
               /\ users'[proc[p].user].subscription_plan = "free"]_vars

C12_Witness ==
    \E p \in Procs :
      /\ proc[p].op = "cmd_ask" /\ proc[p].pc = "done"
      /\ proc[p].outcome = "denied"
      /\ proc[p].check = [allowed |-> FALSE, plan |-> "free",
                          reason |-> "free_plan"]
      /\ users[proc[p].user].subscription_plan = "free"
      /\ users[proc[p].user].subscription_started_at # NULL
      /\ users[proc[p].user].subscription_expires_at < now

PaymentActivates(p) ==
    proc[p].pc = "ps_activate" /\ proc'[p].result = "true"

\* C13: when activate_subscription(user, plan, period) succeeds at time t the
\* stored plan is plan, subscription_started_at is t and
\* subscription_expires_at is t + 30 days (monthly) or t + 365 days (yearly);
\* a subscription read that fetches such a row at time t returns its plan and
\* leaves the users table as it is.
C13_ActivationRoundTrip ==
    [][/\ \A p \in Procs : PaymentActivates(p) =>
            LET pay == proc[p].payload
                row == users'[pay.user]
            IN /\ row.subscription_plan = pay.plan
               /\ row.subscription_started_at = now
               /\ pay.billing_period = "monthly"
                    => row.subscription_expires_at = now + 30
               /\ pay.billing_period = "yearly"
                    => row.subscription_expires_at = now + 365
       /\ \A p \in Procs : ReadReturns(p) =>
            LET row == proc[p].row
            IN ( /\ row.subscription_plan \in {"pro", "ultra"}
                 /\ row.subscription_started_at = now
                 /\ row.subscription_expires_at \in {now + 30, now + 365} )
               => /\ proc'[p].info.plan = row.subscription_plan
                  /\ users' = users]_vars

C13_Witness ==
    \E p, q \in Procs :
      /\ proc[p].op = "process_successful_payment"
      /\ proc[p].outcome = "activated"
      /\ proc[p].payload.plan = "pro"
      /\ proc[p].payload.billing_period = "yearly"
      /\ proc[p].at = now
      /\ now > 0
      /\ ReadDone(q)
      /\ proc[q].user = proc[p].payload.user
      /\ proc[q].row.subscription_started_at = now
      /\ proc[q].row.subscription_expires_at = now + 365
      /\ proc[q].info.plan = "pro"
      /\ users[proc[q].user].subscription_plan = "pro"

\* C14: of the runs of process_successful_payment that were handed the same
\* successful-payment message (the same invoice payload), at most one calls
\* activate_subscription, so the subscription timestamps are written once.
C14_OneActivationPerPayment ==
    \A p, q \in Procs :
      ( /\ p # q
        /\ proc[p].op = "process_successful_payment"
        /\ proc[q].op = "process_successful_payment"
        /\ proc[p].payload = proc[q].payload )
      => ~(proc[p].outcome = "activated" /\ proc[q].outcome = "activated")

IndexSteps(p) ==
    proc[p].pc \in {"ix_embed", "ix_update"} /\ proc'[p].pc # proc[p].pc

\* C15: index_note never raises; when it returns False the notes table is
\* what it was before the call's step, when it returns True exactly one row,
\* the one with the given id, has its embedding replaced by the computed
\* vector and nothing else differs; the embedding step alone writes nothing.
C15_IndexAllOrNothing ==
    [][\A p \in Procs : IndexSteps(p) =>
         /\ proc'[p].result \in {"none", "true", "false"}
         /\ proc'[p].result = "none"
              => proc'[p].pc = "ix_update" /\ notes' = notes
         /\ proc'[p].result = "false" => notes' = notes
         /\ proc'[p].result = "true"
              => \E n \in notes :
                   /\ n.id = proc[p].note
                   /\ \A m \in notes : m.id = n.id => m = n
                   /\ notes' = (notes \ {n}) \cup
                                  {[n EXCEPT !.embedding = proc[p].qe]}]_vars

C15_Witness ==
    \E p, q \in Procs :
      /\ proc[p].op = "index_note" /\ proc[p].pc = "done"
      /\ proc[p].result = "true"
      /\ \E n \in notes : n.id = proc[p].note /\ n.embedding = proc[p].qe
      /\ \E n \in notes : n.id # proc[p].note /\ n.embedding = NULL
      /\ proc[q].op = "index_note" /\ proc[q].pc = "done"
      /\ proc[q].result = "false" /\ proc[q].failed
      /\ proc[q].note = proc[p].note

SearchReturns(p) ==
    proc[p].pc \in {"se_embed", "se_rpc"} /\ proc'[p].pc \notin {"se_embed", "se_rpc"}

\* C16: every result a search run as user U returns is a stored note owned
\* by U, whatever notes of other users the store holds.
C16_SearchUserIsolation ==
    [][\A p \in Procs : SearchReturns(p) =>
         \A i \in 1..Len(proc'[p].results) :
           \E n \in notes :
             /\ n.id = proc'[p].results[i].id
             /\ n.user_id = proc[p].user]_vars

C16_Witness ==
    \E p \in Procs :
      /\ proc[p].op = "search" /\ proc[p].pc = "done"
      /\ proc[p].user = "u2"
      /\ proc[p].limit = 2
      /\ Len(proc[p].results) = 1
      /\ proc[p].results[1].similarity = 10
      /\ \E n, m \in notes :
           /\ n.id = proc[p].results[1].id /\ n.user_id = "u2"
           /\ m.user_id = "u1" /\ m.embedding = n.embedding

\* C17: a search or search_with_threshold call in which the embedding call or
\* the similarity rpc failed returns the empty list to its caller and raises
\* nothing.
C17_SearchNeverPropagates ==
    [][\A p \in Procs :
         (SearchReturns(p) /\ proc'[p].failed /\ ~proc[p].failed) =>
           /\ proc'[p].results = <<>>
           /\ proc'[p].result # "raised"
           /\ proc'[p].pc = proc[p].ret]_vars

C17_Witness ==
    \E p \in Procs :
      /\ proc[p].op = "search_with_threshold" /\ proc[p].pc = "done"
      /\ proc[p].failed
      /\ proc[p].embeds = 1 /\ proc[p].queries = 1
      /\ proc[p].results = <<>>
      /\ proc[p].result = "none"
      /\ \E n \in notes : n.user_id = proc[p].user /\ n.embedding # NULL

\* what the search call inside a returning search_with_threshold returned
SearchOutput(p) ==
    IF proc[p].pc = "se_rpc" /\ ~proc'[p].failed
    THEN SearchNotesRpc(proc[p].qe, proc[p].limit, proc[p].user)
    ELSE <<>>

\* out holds exactly the elements of full with similarity >= min, in the
\* order they have in full
IsThresholded(out, full, min) ==
    /\ {out[i] : i \in 1..Len(out)} =
         {full[i] : i \in {j \in 1..Len(full) : full[j].similarity >= min}}
    /\ Len(out) = Cardinality({j \in 1..Len(full) : full[j].similarity >= min})
    /\ \A i, j \in 1..Len(out) :
         i < j => \E a, b \in 1..Len(full) :
                    a < b /\ full[a] = out[i] /\ full[b] = out[j]

ThresholdedReturns(p) ==
    SearchReturns(p) /\ proc[p].minsim # NULL

\* C18 as stated: search_with_threshold returns the results of its one
\* search call with similarity >= min_similarity, in the same order, and has
\* issued exactly one embedding call and one store query.
C18_OneEmbeddingOneQuery ==
    [][\A p \in Procs : ThresholdedReturns(p) =>
         /\ IsThresholded(proc'[p].results, SearchOutput(p), proc[p].minsim)
         /\ proc'[p].embeds = 1
         /\ proc'[p].queries = 1]_vars

\* C18 amended: search_with_threshold returns the results of its one search
\* call with similarity >= min_similarity (equal is kept), in the same order;
\* it has issued exactly one embedding call, and one store query when the
\* embedding call succeeded, none when it failed.
C18_PostFilterOfOneSearch ==
    [][\A p \in Procs : ThresholdedReturns(p) =>
         /\ IsThresholded(proc'[p].results, SearchOutput(p), proc[p].minsim)
         /\ proc'[p].embeds = 1
         /\ proc'[p].queries = IF proc[p].pc = "se_rpc" THEN 1 ELSE 0]_vars

C18_Witness ==
    \E p \in Procs :
      /\ proc[p].op = "search_with_threshold" /\ proc[p].pc = "done"
      /\ ~proc[p].failed
      /\ proc[p].minsim = 5 /\ proc[p].limit = 2
      /\ proc[p].embeds = 1 /\ proc[p].queries = 1
      /\ proc[p].results = <<[id |-> 3, similarity |-> 5]>>
      /\ notes = SeedNotes

EmbedDone(p) == proc[p].op = "get_embedding" /\ proc[p].pc = "done"

\* C19: get_embedding calls the provider with the first max_chars characters
\* of a text longer than max_chars and with the text itself otherwise; two
\* texts that agree on their first max_chars characters send the same input.
C19_PrefixTruncation ==
    /\ \A p \in Procs : EmbedDone(p) =>
         LET text == proc[p].text
             sent == proc[p].sent
         IN /\ Len(text) > max_chars
                 => /\ Len(sent) = max_chars
                    /\ \A i \in 1..max_chars : sent[i] = text[i]
            /\ Len(text) <= max_chars => sent = text
    /\ \A p, q \in Procs :
         ( /\ EmbedDone(p) /\ EmbedDone(q)
           /\ Len(proc[p].text) >= max_chars /\ Len(proc[q].text) >= max_chars
           /\ \A i \in 1..max_chars : proc[p].text[i] = proc[q].text[i] )
         => proc[p].sent = proc[q].sent

C19_Witness ==
    \E p, q \in Procs :
      /\ EmbedDone(p) /\ EmbedDone(q)
      /\ Len(proc[p].text) > max_chars /\ Len(proc[q].text) > max_chars
      /\ proc[p].text # proc[q].text
      /\ proc[p].text[1] # proc[p].text[Len(proc[p].text)]
      /\ proc[p].sent = proc[q].sent
      /\ Len(proc[p].sent) = max_chars

\* C20: a note operation running in a request of user U (get, list, update,
\* delete, generate or revoke share token, set embedding, index_note) returns
\* only rows owned by U and leaves every row owned by another user as it
\* was, for any note id passed in.
C20_OwnershipScoping ==
    [][\A p \in Procs : proc'[p] # proc[p] =>
         /\ \A r \in proc'[p].rows : r.user_id = proc'[p].user
         /\ \A n \in notes : n.user_id # proc'[p].user => n \in notes']_vars

\* ---------------------------------------------------------------- C21
\* a step in which get_shared_note answers
SharedReturns(p) ==
    /\ proc'[p] # proc[p]
    /\ proc'[p].op = "get_shared_note"
    /\ proc'[p].pc = "done"

\* a step in which revoke_share_token reports a revoked row
RevokeReturns(p) ==
    /\ proc'[p] # proc[p]
    /\ proc'[p].op = "revoke_share_token"
    /\ proc'[p].result = "true"

C22_ShareTokenIdempotent ==
    [][\A p \in Procs :
         /\ (proc[p].pc = "gst_get" /\ proc'[p].pc # "gst_get") =>
               \A n \in OwnedRows(proc[p].note, proc[p].user) :
                  IF n.share_token # NULL /\ n.is_public = proc[p].summary
                  THEN /\ proc'[p].pc = "done"
                       /\ proc'[p].result = "token"
                       /\ proc'[p].rows = {n}
                       /\ notes' = notes
                       /\ nextId' = nextId
                  ELSE proc'[p].pc = "gst_update"
         /\ (proc[p].pc = "gst_update" /\ proc'[p].pc = "done") =>
               /\ \A n \in proc[p].rows :
                     n.share_token = NULL \/ n.is_public # proc[p].summary
               /\ \A m \in proc'[p].rows :
                     /\ m \in notes'
                     /\ m.is_public = proc[p].summary
                     /\ m.share_token # NULL
                     /\ \A n \in notes : n.share_token # m.share_token]_vars

\* u2 asked twice for a public link of note 2, which had one: both calls
\* returned the token 2 and the table is as it was
C22_Witness ==
    /\ \A p \in {1, 2} :
          /\ proc[p].op = "generate_share_token"
          /\ proc[p].pc = "done"
          /\ proc[p].result = "token"
          /\ \E n \in proc[p].rows : n.share_token = 2 /\ n.is_public
    /\ notes = SharedNotes
    /\ nextId = 5

\* ---------------------------------------------------------------- C23
\* the notes whose content holds the text of message i
NotesHolding(i) ==
    {n \in notes : \E k \in 1..Len(n.content) : n.content[k] = i}

\* no flush task is sleeping or running
NoFlushLeft ==
    \A t \in DOMAIN flushes : flushes[t].pc \in {"done", "failed", "cancelled"}

\* C23: once every flush task has ended, the text of each forwarded message
\* is in exactly one created note, and a note holds its messages in arrival
\* order; at no time is a text in two notes
C23_DebouncedMerge ==
    /\ \A i \in 1..Len(received) : Cardinality(NotesHolding(i)) <= 1
    /\ \A n \in notes : \A j, k \in 1..Len(n.content) :
          j < k => n.content[j] < n.content[k]
    /\ NoFlushLeft =>
          \A i \in 1..Len(received) : Cardinality(NotesHolding(i)) = 1

\* ---------------------------------------------------------------- C24
\* the sleeping flush tasks of user u
Pending(u) ==
    {t \in DOMAIN flushes : flushes[t].user = u /\ flushes[t].pc = "sleep"}

\* C24: an arrival cancels the pending flush of its user and registers a
\* new one; a cancelled task takes no further step, so it creates no note
\* and removes nothing from the buffer: every step that adds a note or
\* shortens a buffer is the step of a task that was not cancelled; each
\* user has at most one sleeping task, the registered one
C24_Supersession ==
    [][/\ \A u \in Users :
            Len(forwarded_messages_buffer'[u]) >
               Len(forwarded_messages_buffer[u]) =>
               /\ \A t \in Pending(u) : flushes'[t].pc = "cancelled"
               /\ forwarded_messages_tasks'[u] = Len(flushes')
               /\ flushes'[Len(flushes')] = NewFlush(u)
       /\ \A t \in DOMAIN flushes :
            flushes[t].pc = "cancelled" => flushes'[t] = flushes[t]
       /\ (\/ notes' # notes
           \/ \E u \in Users : Len(forwarded_messages_buffer'[u]) <
                                  Len(forwarded_messages_buffer[u])) =>
            \E t \in DOMAIN flushes :
               /\ flushes[t].pc \in {"sleep", "index"}
               /\ flushes'[t] # flushes[t]
               /\ flushes'[t].pc # "cancelled"
       /\ \A u \in Users :
            /\ Cardinality(Pending(u)') <= 1
            /\ Pending(u)' \subseteq {forwarded_messages_tasks'[u]}]_vars

\* two messages of u1 arrived in a row: the flush of the first was cancelled
\* and the flush of the second stored both texts in one note
C24_Witness ==
    /\ Len(flushes) = 2
    /\ flushes[1].user = "u1"
    /\ flushes[1].pc = "cancelled"
    /\ flushes[2].user = "u1"
    /\ flushes[2].pc = "done"
    /\ \E n \in notes : n.content = <<1, 2>> /\ n.user_id = "u1"
    /\ Cardinality(notes) = 1
    /\ forwarded_messages_buffer["u1"] = <<>>

\* ---------------------------------------------------------------- C30
\* C30: the step in which process_forwarded_messages pops the buffer leaves
\* each popped message in the buffer or in a stored note, also when the user
\* lookup or the insert fails
C30_FailedFlushLosesNothing ==
    [][\A t \in DOMAIN flushes :
         (flushes[t].pc = "sleep" /\ flushes'[t].pc \notin {"sleep", "cancelled"}) =>
            LET u == flushes[t].user
                popped == forwarded_messages_buffer[u]
                left == forwarded_messages_buffer'[u]
            IN \A k \in 1..Len(popped) :
                 \/ \E j \in 1..Len(left) : left[j] = popped[k]
                 \/ \E n \in notes' : \E j \in 1..Len(n.content) :
                       n.content[j] = popped[k]]_vars

\* ---------------------------------------------------------------- C25
\* C25: when every request has ended and no index_note call has failed, the
\* embedding of each note is the vector of its current content
C25_EmbeddingFollowsContent ==
    (AllQuiet /\ \A p \in Procs : ~proc[p].failed) =>
       \A n \in notes : n.embedding = EmbeddingOf(n.content)

C27_QuotaNeverOvershot ==
    \A r \in usage_stats :
       r.user_id = "u1" => r.summaries_used <= ProSummaries

\* ---------------------------------------------------------------- C28
\* a step in which increment_usage returns True
IncrementSucceeds(p) ==
    /\ proc[p].pc = "inc_write"
    /\ proc'[p].pc # "inc_write"
    /\ proc'[p].result = "true"

\* C28: the step in which increment_usage(user, type, amount) succeeds
\* raises the '<type>_used' counter of the record of (user, month of the
\* call) by amount, or, when there is no such record, adds one with that
\* counter equal to amount and the others zero; every other record and every
\* other counter is as before
C28_IncrementFrame ==
    [][\A p \in Procs : IncrementSucceeds(p) =>
         LET field == FieldOf(proc[p].utype)
             target == ExistingRows(proc[p].user, proc[p].month)
         IN IF target = {}
            THEN usage_stats' = usage_stats \cup
                    {NewUsageRow(nextId, proc[p].user, proc[p].month, field,
                                 proc[p].amount)}
            ELSE \E r \in target :
                    usage_stats' = (usage_stats \ {r}) \cup
                       {[r EXCEPT ![field] = @ + proc[p].amount]}]_vars

\* ---------------------------------------------------------------- C29
\* C29: when a subscription read has fetched an expired row and an
\* activation has stored a paid plan, not expired, before the read writes,
\* the read leaves the activated plan stored
C29_DowngradeKeepsActivation ==
    [][\A p \in Procs : ReadReturns(p) =>
         LET u == proc[p].user
             fetched == proc[p].row
         IN (/\ TrialExpired(fetched, now) \/ PaidExpired(fetched, now)
             /\ users[u] # fetched
             /\ users[u].subscription_plan \in PaidPlans
             /\ ~PaidExpired(users[u], now))
            => users'[u].subscription_plan = users[u].subscription_plan]_vars

====
